---- MODULE Spec2Model ----
\* A model of the TLSF pool core (src/src/tlsf.c).
\*
\* The heap is a word-addressed memory.  A block pointer b names the byte
\* address of the block's prev field, so that the header lives at b + 8,
\* next_free at b + 16 and prev_free at b + 24, as in the 64-bit build.
\* The control structure tlsf_t is the record tlsf.  The build modelled is
\* the 64-bit one with TLSF_MAX_POOL_BITS lowered to 12, so that a block of
\* BLOCK_SIZE_MAX bytes fits in the modelled memory and the first-level
\* class whose bins are 32 bytes wide (1024..2047) holds more than one size.  The 32-bit words fl and
\* sl[i] are represented by the sets of their set bit positions.
EXTENDS Integers, Naturals, Sequences, FiniteSets, TLC

VARIABLES tlsf, heap, brk, live, last, ts, thr

(* tlsf, heap, brk, live and last are the single pool and its caller; ts is *)
(* the tlsf_thread_t instance of the thread-safe wrapper and thr the state  *)
(* of the threads that call it.                                             *)
vars == <<tlsf, heap, brk, live, last, ts, thr>>

(* ------------------------------------------------------------------ *)
(* Build configuration (src/src/tlsf.c:16-53, src/include/tlsf.h)      *)
(* ------------------------------------------------------------------ *)
SIZE_WIDTH == 64
ALIGN_SHIFT == 3
ALIGN_SIZE == 2 ^ ALIGN_SHIFT
SL_SHIFT == 5
SL_COUNT == 2 ^ SL_SHIFT
FL_MAX == 12
FL_SHIFT == SL_SHIFT + ALIGN_SHIFT
FL_COUNT == FL_MAX - FL_SHIFT + 1
BLOCK_BIT_FREE == 1
BLOCK_BIT_PREV_FREE == 2
BLOCK_BITS == BLOCK_BIT_FREE + BLOCK_BIT_PREV_FREE
SIZEOF_SIZE_T == SIZE_WIDTH \div 8
SIZEOF_BLOCK == 4 * SIZEOF_SIZE_T
BLOCK_OVERHEAD == SIZEOF_SIZE_T
BLOCK_SIZE_MIN == SIZEOF_BLOCK - SIZEOF_SIZE_T
BLOCK_SIZE_MAX == 2 ^ (FL_MAX - 1)
BLOCK_SIZE_SMALL == 2 ^ FL_SHIFT
TLSF_SPLIT_THRESHOLD == BLOCK_SIZE_MIN
TLSF_MAX_SIZE == 2 ^ (FL_MAX - 1) - SIZEOF_SIZE_T

(* Field offsets of struct tlsf_block. *)
OFF_PREV == 0
OFF_HEADER == SIZEOF_SIZE_T
OFF_NEXT_FREE == 2 * SIZEOF_SIZE_T
OFF_PREV_FREE == 3 * SIZEOF_SIZE_T

(* The C null pointer and the address of t->block_null, which lies in the  *)
(* control structure and not in the heap.                                  *)
NULL == 0
BLOCK_NULL == 0 - 64

(* ------------------------------------------------------------------ *)
(* The modelled address space                                          *)
(* ------------------------------------------------------------------ *)
HeapBase == 8 * SIZEOF_SIZE_T
SmallHeapWords == 20
LargeHeapWords == 264
SmallHeapBytes == SmallHeapWords * SIZEOF_SIZE_T
LargeHeapBytes == LargeHeapWords * SIZEOF_SIZE_T
HeapWords(bytes) ==
    (HeapBase \div SIZEOF_SIZE_T) .. ((HeapBase + bytes) \div SIZEOF_SIZE_T - 1)
(* The number of bytes of a memory. *)
MemBytes(mem) == Cardinality(DOMAIN mem) * SIZEOF_SIZE_T

(* The content of a word the allocator has not written. *)
Dead == 2 ^ 20 + 5

Min(S) == CHOOSE x \in S : \A y \in S : x <= y

Max(S) == CHOOSE x \in S : \A y \in S : y <= x

RECURSIVE SumSeq(_)
SumSeq(q) == IF q = <<>> THEN 0 ELSE Head(q) + SumSeq(Tail(q))

(* With(e, LAMBDA x : body) is body with x bound to the value of e: the *)
(* local variable of a C function that is assigned once and read often. *)
With(x, F(_)) == F(x)

(* A world is the control structure together with the heap memory. *)
Rd(w, a) == w.mem[a \div SIZEOF_SIZE_T]
Wr(w, a, v) == [w EXCEPT !.mem[a \div SIZEOF_SIZE_T] = v]

RdHeader(w, b) == Rd(w, b + OFF_HEADER)
WrHeader(w, b, v) == Wr(w, b + OFF_HEADER, v)
RdPrev(w, b) == Rd(w, b + OFF_PREV)
WrPrev(w, b, v) == Wr(w, b + OFF_PREV, v)
RdNextFree(w, b) ==
    IF b = BLOCK_NULL THEN w.t.block_null.next_free ELSE Rd(w, b + OFF_NEXT_FREE)
WrNextFree(w, b, v) ==
    IF b = BLOCK_NULL THEN [w EXCEPT !.t.block_null.next_free = v]
    ELSE Wr(w, b + OFF_NEXT_FREE, v)
RdPrevFree(w, b) ==
    IF b = BLOCK_NULL THEN w.t.block_null.prev_free ELSE Rd(w, b + OFF_PREV_FREE)
WrPrevFree(w, b, v) ==
    IF b = BLOCK_NULL THEN [w EXCEPT !.t.block_null.prev_free = v]
    ELSE Wr(w, b + OFF_PREV_FREE, v)

(* ------------------------------------------------------------------ *)
(* Bit and size helpers                                                *)
(* ------------------------------------------------------------------ *)
RECURSIVE log2floor(_)
log2floor(x) == IF x <= 1 THEN 0 ELSE 1 + log2floor(x \div 2)

bitmap_ffs(x) == Min(x)

RECURSIVE BitOr(_, _)
BitOr(a, b) ==
    IF a = 0 THEN b
    ELSE IF b = 0 THEN a
    ELSE (IF a % 2 = 1 \/ b % 2 = 1 THEN 1 ELSE 0) + 2 * BitOr(a \div 2, b \div 2)

RECURSIVE BitAnd(_, _)
BitAnd(a, b) ==
    IF a = 0 \/ b = 0 THEN 0
    ELSE (IF a % 2 = 1 /\ b % 2 = 1 THEN 1 ELSE 0) + 2 * BitAnd(a \div 2, b \div 2)

(* header & ~BLOCK_BITS *)
block_size_of(h) == h - (h % (BLOCK_BITS + 1))
(* header & BLOCK_BITS *)
block_bits_of(h) == h % (BLOCK_BITS + 1)
HasBit(h, bit) == (h \div bit) % 2 = 1
ClearBit(h, bit) == IF HasBit(h, bit) THEN h - bit ELSE h

block_size(w, b) == block_size_of(RdHeader(w, b))

block_set_size(w, b, size) ==
    WrHeader(w, b, BitOr(size, block_bits_of(RdHeader(w, b))))

block_is_free(w, b) == HasBit(RdHeader(w, b), BLOCK_BIT_FREE)

block_is_prev_free(w, b) == HasBit(RdHeader(w, b), BLOCK_BIT_PREV_FREE)

block_set_prev_free(w, b, free) ==
    WrHeader(w, b, IF free THEN BitOr(RdHeader(w, b), BLOCK_BIT_PREV_FREE)
                           ELSE ClearBit(RdHeader(w, b), BLOCK_BIT_PREV_FREE))

(* (((x - 1) | (align - 1)) + 1) for align a power of two, x > 0; *)
(* x = 0 wraps (0 - 1) to all ones, whose increment wraps to 0.   *)
align_up(x, align) ==
    IF x = 0 THEN 0 ELSE ((x - 1) - ((x - 1) % align)) + (align - 1) + 1

align_ptr(p, align) == p + (align_up(p, align) - p)

block_payload(b) == b + OFF_HEADER + BLOCK_OVERHEAD

block_from_payload(ptr) == ptr - OFF_HEADER - BLOCK_OVERHEAD

block_prev(w, b) == RdPrev(w, b)

block_next(w, b) == block_payload(b) + block_size(w, b) - BLOCK_OVERHEAD

(* A fault-seeded block_link_next that leaves next->prev unwritten. *)
block_link_next_skip(w, b) == w

(* Returns the world with next->prev = block. *)
block_link_next(w, b) == WrPrev(w, block_next(w, b), b)

block_can_split(w, b, size) == block_size(w, b) >= SIZEOF_BLOCK + size

block_can_trim(w, b, size) ==
    block_size(w, b) >= BLOCK_OVERHEAD + TLSF_SPLIT_THRESHOLD + size

block_set_free(w, b, free) ==
    LET w1 == WrHeader(w, b, IF free THEN BitOr(RdHeader(w, b), BLOCK_BIT_FREE)
                                     ELSE ClearBit(RdHeader(w, b), BLOCK_BIT_FREE))
        w2 == block_link_next(w1, b)
    IN  block_set_prev_free(w2, block_next(w1, b), free)

(* A fault-seeded adjust_size that clamps an over-limit size to the limit *)
(* instead of passing it on to fail the caller's bounds check.           *)
adjust_size_clamp(size, align) ==
    IF size > TLSF_MAX_SIZE THEN TLSF_MAX_SIZE
    ELSE LET s == align_up(size, align)
         IN  IF s < BLOCK_SIZE_MIN THEN BLOCK_SIZE_MIN ELSE s

adjust_size(size, align) ==
    IF size > TLSF_MAX_SIZE THEN size
    ELSE LET s == align_up(size, align)
         IN  IF s < BLOCK_SIZE_MIN THEN BLOCK_SIZE_MIN ELSE s

(* A fault-seeded round_block_size that never rounds. *)
round_block_size_identity(size) == size

round_block_size(size) ==
    LET lg == log2floor(size)
        is_large == IF lg >= FL_SHIFT THEN 1 ELSE 0
        shift == (lg - SL_SHIFT) % SIZE_WIDTH
        round == IF is_large = 0 THEN 0 ELSE 2 ^ shift
        tt == round - is_large
    IN  (size + tt) - ((size + tt) % (tt + 1))

(* x ^ SL_COUNT *)
XorSlCount(x) == IF (x \div SL_COUNT) % 2 = 1 THEN x - SL_COUNT ELSE x + SL_COUNT

mapping(size) ==
    LET tt == log2floor(size)
        small == tt < FL_SHIFT
        shift == (tt - SL_SHIFT) % SIZE_WIDTH
    IN  [fl |-> IF small THEN 0 ELSE tt - FL_SHIFT + 1,
         sl |-> IF small THEN size \div ALIGN_SIZE
                ELSE XorSlCount(size \div (2 ^ shift))]

mapping_size(fl, sl) ==
    IF fl = 0 THEN sl * (BLOCK_SIZE_SMALL \div SL_COUNT)
    ELSE LET size == 2 ^ (fl + FL_SHIFT - 1)
         IN  size + sl * (size \div SL_COUNT)

(* ------------------------------------------------------------------ *)
(* Free lists and bitmaps                                              *)
(* ------------------------------------------------------------------ *)
(* A fault-seeded search that never looks above the first-level class of *)
(* the request.                                                          *)
block_find_suitable_same_fl(w, fl0, sl0) ==
    LET sl_map == {j \in w.t.sl[fl0] : j >= sl0}
    IN  IF sl_map # {}
        THEN [block |-> w.t.block[fl0][bitmap_ffs(sl_map)],
              fl |-> fl0, sl |-> bitmap_ffs(sl_map)]
        ELSE [block |-> NULL, fl |-> fl0, sl |-> sl0]

block_find_suitable(w, fl0, sl0) ==
    LET sl_map == {j \in w.t.sl[fl0] : j >= sl0}
        fl_map == IF fl0 + 1 >= 32 THEN {} ELSE {i \in w.t.fl : i >= fl0 + 1}
    IN  IF sl_map # {}
        THEN [block |-> w.t.block[fl0][bitmap_ffs(sl_map)],
              fl |-> fl0, sl |-> bitmap_ffs(sl_map)]
        ELSE IF fl_map = {}
        THEN [block |-> NULL, fl |-> fl0, sl |-> sl0]
        ELSE LET fl1 == bitmap_ffs(fl_map)
                 sl1 == bitmap_ffs(w.t.sl[fl1])
             IN  [block |-> w.t.block[fl1][sl1], fl |-> fl1, sl |-> sl1]

(* A fault-seeded remove_free_block that relinks the neighbours but *)
(* leaves the bin head and the bitmaps as they were.                *)
remove_free_block_stale_head(w, b, fl0, sl0) ==
    LET prev == RdPrevFree(w, b)
        next == RdNextFree(w, b)
    IN  WrNextFree(WrPrevFree(w, next, prev), prev, next)

remove_free_block(w, b, fl0, sl0) ==
    LET prev == RdPrevFree(w, b)
        next == RdNextFree(w, b)
    IN  With(WrNextFree(WrPrevFree(w, next, prev), prev, next), LAMBDA w2 :
            IF w2.t.block[fl0][sl0] # b THEN w2
            ELSE IF next # BLOCK_NULL THEN [w2 EXCEPT !.t.block[fl0][sl0] = next]
            ELSE IF w2.t.sl[fl0] \ {sl0} # {}
            THEN [w2 EXCEPT !.t.block[fl0][sl0] = next, !.t.sl[fl0] = @ \ {sl0}]
            ELSE [w2 EXCEPT !.t.block[fl0][sl0] = next, !.t.sl[fl0] = @ \ {sl0},
                            !.t.fl = @ \ {fl0}])

(* A fault-seeded insert_free_block that forgets the first-level bit. *)
insert_free_block_no_fl(w, b, fl0, sl0) ==
    LET current == w.t.block[fl0][sl0]
        w1 == WrNextFree(w, b, current)
        w2 == WrPrevFree(w1, b, BLOCK_NULL)
        w3 == WrPrevFree(w2, current, b)
    IN  [w3 EXCEPT !.t.block[fl0][sl0] = b,
                   !.t.sl[fl0] = @ \cup {sl0}]

insert_free_block(w, b, fl0, sl0) ==
    LET current == w.t.block[fl0][sl0]
        w1 == WrNextFree(w, b, current)
        w2 == WrPrevFree(w1, b, BLOCK_NULL)
        w3 == WrPrevFree(w2, current, b)
    IN  [w3 EXCEPT !.t.block[fl0][sl0] = b,
                   !.t.fl = @ \cup {fl0},
                   !.t.sl[fl0] = @ \cup {sl0}]

block_remove(w, b) ==
    LET m == mapping(block_size(w, b))
    IN  remove_free_block(w, b, m.fl, m.sl)

block_insert(w, b) ==
    LET m == mapping(block_size(w, b))
    IN  insert_free_block(w, b, m.fl, m.sl)

(* ------------------------------------------------------------------ *)
(* Split, absorb, merge, trim                                          *)
(* ------------------------------------------------------------------ *)
(* Each returns the new world and, where the C function returns a block, *)
(* that block.                                                           *)
block_split(w, b, size) ==
    LET rest == block_payload(b) + size - BLOCK_OVERHEAD
        rest_size == block_size(w, b) - (size + BLOCK_OVERHEAD)
        w1 == WrHeader(w, rest, rest_size)
        w2 == block_set_free(w1, rest, TRUE)
        w3 == block_set_size(w2, b, size)
    IN  [w |-> w3, block |-> rest]

block_absorb(w, prev, b) ==
    LET w1 == WrHeader(w, prev, RdHeader(w, prev) + block_size(w, b) + BLOCK_OVERHEAD)
    IN  [w |-> block_link_next(w1, prev), block |-> prev]

(* A fault-seeded block_merge_prev that never coalesces. *)
block_merge_prev_never(w, b) == [w |-> w, block |-> b]

block_merge_prev(w, b) ==
    IF block_is_prev_free(w, b)
    THEN LET prev == block_prev(w, b)
         IN  block_absorb(block_remove(w, prev), prev, b)
    ELSE [w |-> w, block |-> b]

(* A fault-seeded block_merge_next that never coalesces. *)
block_merge_next_never(w, b) == [w |-> w, block |-> b]

block_merge_next(w, b) ==
    LET next == block_next(w, b)
    IN  IF block_is_free(w, next)
        THEN block_absorb(block_remove(w, next), b, next)
        ELSE [w |-> w, block |-> b]

block_rtrim_free(w, b, size) ==
    IF ~block_can_trim(w, b, size) THEN w
    ELSE With(block_split(w, b, size), LAMBDA s :
             block_insert(block_set_prev_free(block_link_next(s.w, b), s.block, TRUE),
                          s.block))

(* A fault-seeded block_rtrim_used that puts the split-off tail into its bin *)
(* without first coalescing it with a free successor.                      *)
block_rtrim_used_no_merge(w, b, size) ==
    IF ~block_can_trim(w, b, size) THEN w
    ELSE With(block_split(w, b, size), LAMBDA s :
             block_insert(block_set_prev_free(s.w, s.block, FALSE), s.block))

block_rtrim_used(w, b, size) ==
    IF ~block_can_trim(w, b, size) THEN w
    ELSE With(block_split(w, b, size), LAMBDA s :
         With(block_merge_next(block_set_prev_free(s.w, s.block, FALSE), s.block),
              LAMBDA m : block_insert(m.w, m.block)))

(* A fault-seeded block_ltrim_free that forgets the header of the block it *)
(* cuts off, so the remaining block starts BLOCK_OVERHEAD too late.        *)
block_ltrim_free_late(w, b, size) ==
    With(block_split(w, b, size), LAMBDA s :
        [w |-> block_insert(block_link_next(block_set_prev_free(s.w, s.block, TRUE), b), b),
         block |-> s.block])

block_ltrim_free(w, b, size) ==
    With(block_split(w, b, size - BLOCK_OVERHEAD), LAMBDA s :
        [w |-> block_insert(block_link_next(block_set_prev_free(s.w, s.block, TRUE), b), b),
         block |-> s.block])

(* A fault-seeded block_use that trims but leaves the block marked free. *)
block_use_keep_free(w, b, size) ==
    [w |-> block_rtrim_free(w, b, size), ret |-> block_payload(b)]

block_use(w, b, size) ==
    LET w1 == block_rtrim_free(w, b, size)
    IN  [w |-> block_set_free(w1, b, FALSE), ret |-> block_payload(b)]

(* ------------------------------------------------------------------ *)
(* The resize backend of the test program (src/tests/test.c)           *)
(* ------------------------------------------------------------------ *)
(* The backend reserves MAX_PAGES * PAGE bytes at start_addr once, here *)
(* the whole modelled memory, and refuses any request beyond the       *)
(* reservation.  w.brk records the size of the last request it granted. *)
tlsf_resize(w, req_size) ==
    IF req_size > MemBytes(w.mem) THEN [w |-> w, addr |-> NULL]
    ELSE [w |-> [w EXCEPT !.brk = req_size], addr |-> HeapBase]

EmptyBins == [i \in 0 .. FL_COUNT - 1 |-> [j \in 0 .. SL_COUNT - 1 |-> BLOCK_NULL]]

(* ------------------------------------------------------------------ *)
(* Arena growth, append and shrink                                     *)
(* ------------------------------------------------------------------ *)
(* A fault-seeded arena_grow that records the new pool size before the *)
(* backend has granted it.                                            *)
arena_grow_commit_early(w, size) ==
    IF w.t.arena # NULL THEN [w |-> w, ok |-> FALSE]
    ELSE LET w1 == IF w.t.size = 0 THEN [w EXCEPT !.t.block = EmptyBins] ELSE w
             req_size == (IF w.t.size # 0 THEN w.t.size + BLOCK_OVERHEAD
                          ELSE 2 * BLOCK_OVERHEAD) + size
         IN  IF req_size > 2 ^ FL_MAX THEN [w |-> w1, ok |-> FALSE]
             ELSE With(tlsf_resize(w1, req_size), LAMBDA r :
                  IF r.addr = NULL THEN [w |-> [r.w EXCEPT !.t.size = req_size], ok |-> FALSE]
                  ELSE LET b == IF w.t.size # 0
                                THEN r.addr + w.t.size - 2 * BLOCK_OVERHEAD
                                ELSE r.addr - BLOCK_OVERHEAD
                           w2 == IF w.t.size = 0 THEN WrHeader(r.w, b, 0) ELSE r.w
                           w3 == WrHeader(w2, b, BitOr(RdHeader(w2, b),
                                                       BitOr(size, BLOCK_BIT_FREE)))
                       IN  With(block_merge_prev(w3, b), LAMBDA m :
                           With(block_insert(m.w, m.block), LAMBDA w4 :
                               [w |-> [WrHeader(block_link_next(w4, m.block),
                                                block_next(w4, m.block),
                                                BLOCK_BIT_PREV_FREE)
                                       EXCEPT !.t.size = req_size],
                                ok |-> TRUE])))

arena_grow(w, size) ==
    IF w.t.arena # NULL THEN [w |-> w, ok |-> FALSE]
    ELSE LET w1 == IF w.t.size = 0 THEN [w EXCEPT !.t.block = EmptyBins] ELSE w
             req_size == (IF w.t.size # 0 THEN w.t.size + BLOCK_OVERHEAD
                          ELSE 2 * BLOCK_OVERHEAD) + size
         IN  IF req_size > 2 ^ FL_MAX THEN [w |-> w1, ok |-> FALSE]
             ELSE With(tlsf_resize(w1, req_size), LAMBDA r :
                  IF r.addr = NULL THEN [w |-> r.w, ok |-> FALSE]
                  ELSE LET b == IF w.t.size # 0
                                THEN r.addr + w.t.size - 2 * BLOCK_OVERHEAD
                                ELSE r.addr - BLOCK_OVERHEAD
                           w2 == IF w.t.size = 0 THEN WrHeader(r.w, b, 0) ELSE r.w
                           w3 == WrHeader(w2, b, BitOr(RdHeader(w2, b),
                                                       BitOr(size, BLOCK_BIT_FREE)))
                       IN  With(block_merge_prev(w3, b), LAMBDA m :
                           With(block_insert(m.w, m.block), LAMBDA w4 :
                               [w |-> [WrHeader(block_link_next(w4, m.block),
                                                block_next(w4, m.block),
                                                BLOCK_BIT_PREV_FREE)
                                       EXCEPT !.t.size = req_size],
                                ok |-> TRUE])))

arena_append_pool(w, mem, size) ==
    IF w.t.size = 0 \/ mem = NULL \/ size < 2 * BLOCK_OVERHEAD THEN [w |-> w, ret |-> 0]
    ELSE
    LET start == align_ptr(mem, ALIGN_SIZE)
        end == mem + size
        full_size == (end - start) - ((end - start) % ALIGN_SIZE)
        aligned_size == IF w.t.arena # NULL THEN full_size - BLOCK_OVERHEAD ELSE full_size
    IN  IF w.t.arena # NULL /\ full_size <= BLOCK_OVERHEAD THEN [w |-> w, ret |-> 0]
        ELSE IF aligned_size < 2 * BLOCK_OVERHEAD THEN [w |-> w, ret |-> 0]
        ELSE
        LET q == IF w.t.arena # NULL THEN [w |-> w, addr |-> w.t.arena]
                 ELSE tlsf_resize(w, w.t.size)
            old_size == w.t.size
            new_total_size == w.t.size + aligned_size + BLOCK_OVERHEAD
        IN  IF q.addr = NULL THEN [w |-> q.w, ret |-> 0]
            ELSE IF start # q.addr + w.t.size THEN [w |-> q.w, ret |-> 0]
            ELSE IF new_total_size > 2 ^ FL_MAX THEN [w |-> q.w, ret |-> 0]
            ELSE
            LET r == IF w.t.arena = NULL THEN tlsf_resize(q.w, new_total_size) ELSE q
            IN  IF r.addr = NULL THEN [w |-> r.w, ret |-> 0]
                ELSE
                LET w1 == [r.w EXCEPT !.t.size = new_total_size]
                    old_sentinel == r.addr + old_size - 2 * BLOCK_OVERHEAD
                    has_last == block_is_prev_free(w1, old_sentinel)
                    last_block == IF has_last THEN block_prev(w1, old_sentinel) ELSE NULL
                    w2 == IF has_last THEN block_remove(w1, last_block) ELSE w1
                    new_free_size == IF has_last
                                     THEN aligned_size + block_size(w2, last_block)
                                          + BLOCK_OVERHEAD
                                     ELSE aligned_size
                    new_free_block == IF has_last THEN last_block ELSE old_sentinel
                    w3 == WrHeader(w2, new_free_block, BitOr(new_free_size, BLOCK_BIT_FREE))
                    w4 == block_insert(w3, new_free_block)
                    new_sentinel == block_next(w4, new_free_block)
                    w5 == block_link_next(w4, new_free_block)
                    w6 == WrHeader(w5, new_sentinel, BLOCK_BIT_PREV_FREE)
                IN  [w |-> w6, ret |-> aligned_size]

(* A fault-seeded arena_shrink that gives back the payload of the block *)
(* but not its header.                                                 *)
arena_shrink_keep_overhead(w, b) ==
    LET remaining == w.t.size - block_size(w, b)
        w1 == [w EXCEPT !.t.size = IF remaining = BLOCK_OVERHEAD THEN 0 ELSE remaining]
        r == tlsf_resize(w1, w1.t.size)
    IN  IF w1.t.size # 0 THEN WrHeader(r.w, b, 0) ELSE r.w

(* A fault-seeded arena_shrink without the clamp of a remaining size of *)
(* BLOCK_OVERHEAD to 0.                                                *)
arena_shrink_no_clamp(w, b) ==
    LET size == block_size(w, b)
        remaining == w.t.size - size - BLOCK_OVERHEAD
        w1 == [w EXCEPT !.t.size = remaining]
        r == tlsf_resize(w1, w1.t.size)
    IN  IF w1.t.size # 0 THEN WrHeader(r.w, b, 0) ELSE r.w

arena_shrink(w, b) ==
    LET size == block_size(w, b)
        remaining == w.t.size - size - BLOCK_OVERHEAD
        w1 == [w EXCEPT !.t.size = IF remaining = BLOCK_OVERHEAD THEN 0 ELSE remaining]
        r == tlsf_resize(w1, w1.t.size)
    IN  IF w1.t.size # 0 THEN WrHeader(r.w, b, 0) ELSE r.w

(* ------------------------------------------------------------------ *)
(* Public operations                                                   *)
(* ------------------------------------------------------------------ *)
(* A fault-seeded block_find_free that keeps the rounded request as the *)
(* size to allocate.                                                   *)
block_find_free_requested(w, size) ==
    LET rsize == round_block_size(size)
        m == mapping(rsize)
        f1 == block_find_suitable(w, m.fl, m.sl)
    IN  With(IF f1.block = NULL THEN arena_grow(w, rsize) ELSE [w |-> w, ok |-> TRUE],
             LAMBDA g :
            IF ~g.ok THEN [w |-> g.w, block |-> NULL, size |-> rsize]
            ELSE With(IF f1.block = NULL THEN block_find_suitable(g.w, m.fl, m.sl) ELSE f1,
                      LAMBDA f2 :
                     [w |-> remove_free_block(g.w, f2.block, f2.fl, f2.sl),
                      block |-> f2.block,
                      size |-> rsize]))

block_find_free(w, size) ==
    LET rsize == round_block_size(size)
        m == mapping(rsize)
        f1 == block_find_suitable(w, m.fl, m.sl)
    IN  With(IF f1.block = NULL THEN arena_grow(w, rsize) ELSE [w |-> w, ok |-> TRUE],
             LAMBDA g :
            IF ~g.ok THEN [w |-> g.w, block |-> NULL, size |-> rsize]
            ELSE With(IF f1.block = NULL THEN block_find_suitable(g.w, m.fl, m.sl) ELSE f1,
                      LAMBDA f2 :
                     [w |-> remove_free_block(g.w, f2.block, f2.fl, f2.sl),
                      block |-> f2.block,
                      size |-> mapping_size(f2.fl, f2.sl)]))

tlsf_malloc(w, n) ==
    LET size == adjust_size(n, ALIGN_SIZE)
        sl0 == size \div ALIGN_SIZE
        sl_map == IF size < BLOCK_SIZE_SMALL THEN {j \in w.t.sl[0] : j >= sl0} ELSE {}
    IN  IF size > TLSF_MAX_SIZE THEN [w |-> w, ret |-> NULL]
        ELSE IF sl_map # {}
        THEN LET found_sl == bitmap_ffs(sl_map)
                 b == w.t.block[0][found_sl]
             IN  block_use(remove_free_block(w, b, 0, found_sl), b,
                           found_sl * ALIGN_SIZE)
        ELSE With(block_find_free(w, size), LAMBDA f :
                 IF f.block = NULL THEN [w |-> f.w, ret |-> NULL]
                 ELSE block_use(f.w, f.block, f.size))

IsPowerOfTwo(x) == x > 0 /\ 2 ^ log2floor(x) = x

tlsf_aalloc(w, align, n) ==
    LET adjust == adjust_size(n, ALIGN_SIZE)
    IN  IF align = 0 \/ ~IsPowerOfTwo(align) \/ align > TLSF_MAX_SIZE
           \/ SIZEOF_BLOCK > TLSF_MAX_SIZE
           \/ adjust > TLSF_MAX_SIZE - align - SIZEOF_BLOCK
        THEN [w |-> w, ret |-> NULL]
        ELSE IF align <= ALIGN_SIZE THEN tlsf_malloc(w, n)
        ELSE With(block_find_free(w, adjust_size(adjust + align - 1 + SIZEOF_BLOCK, align)),
                  LAMBDA f :
                 IF f.block = NULL THEN [w |-> f.w, ret |-> NULL]
                 ELSE LET mem == align_ptr(block_payload(f.block) + SIZEOF_BLOCK, align)
                      IN  With(block_ltrim_free(f.w, f.block, mem - block_payload(f.block)),
                               LAMBDA l : block_use(l.w, l.block, adjust)))

(* A fault-seeded tlsf_free that never gives the last block back to the *)
(* backend.                                                            *)
tlsf_free_no_shrink(w, mem) ==
    IF mem = NULL THEN w
    ELSE LET b == block_from_payload(mem)
         IN  With(block_merge_prev(block_set_free(w, b, TRUE), b), LAMBDA m1 :
             With(block_merge_next(m1.w, m1.block), LAMBDA m2 :
                 block_insert(m2.w, m2.block)))

(* A fault-seeded tlsf_free that shrinks the pool whenever the freed block *)
(* borders the end-sentinel, whoever owns the memory.                     *)
tlsf_free_shrink_always(w, mem) ==
    IF mem = NULL THEN w
    ELSE LET b == block_from_payload(mem)
         IN  With(block_merge_prev(block_set_free(w, b, TRUE), b), LAMBDA m1 :
             With(block_merge_next(m1.w, m1.block), LAMBDA m2 :
                 IF block_size(m2.w, block_next(m2.w, m2.block)) = 0
                 THEN arena_shrink(m2.w, m2.block)
                 ELSE block_insert(m2.w, m2.block)))

tlsf_free(w, mem) ==
    IF mem = NULL THEN w
    ELSE LET b == block_from_payload(mem)
         IN  With(block_merge_prev(block_set_free(w, b, TRUE), b), LAMBDA m1 :
             With(block_merge_next(m1.w, m1.block), LAMBDA m2 :
                 IF block_size(m2.w, block_next(m2.w, m2.block)) = 0 /\ m2.w.t.arena = NULL
                 THEN arena_shrink(m2.w, m2.block)
                 ELSE block_insert(m2.w, m2.block)))

(* A fault-seeded memmove that copies nothing. *)
memmove_nothing(w, dst, src, n) == w

(* memmove / memcpy of n bytes (n a multiple of the word size here). *)
memmove(w, dst, src, n) ==
    [w EXCEPT !.mem = [a \in DOMAIN w.mem |->
        IF a * SIZEOF_SIZE_T >= dst /\ a * SIZEOF_SIZE_T < dst + n
        THEN w.mem[(a * SIZEOF_SIZE_T - dst + src) \div SIZEOF_SIZE_T]
        ELSE w.mem[a]]]

(* A fault-seeded relocation that frees the old block before it knows *)
(* whether the new allocation succeeded.                             *)
realloc_relocate_free_first(w, mem, size, avail) ==
    With(tlsf_malloc(tlsf_free(w, mem), size), LAMBDA r :
        IF r.ret = NULL THEN r
        ELSE [w |-> memmove(r.w, r.ret, mem, avail), ret |-> r.ret])

realloc_relocate(w, mem, size, avail) ==
    With(tlsf_malloc(w, size), LAMBDA r :
        IF r.ret = NULL THEN r
        ELSE [w |-> tlsf_free(memmove(r.w, r.ret, mem, avail), mem), ret |-> r.ret])

(* A fault-seeded backward expansion that leaves the previous block in its *)
(* bin while merging it into the used block.                             *)
realloc_backward_keep_binned(w, b, prev, next, next_free, avail, size) ==
    LET prev_size == block_size(w, prev)
        new_size == prev_size + avail + BLOCK_OVERHEAD
    IN  With(memmove(w, block_payload(prev), block_payload(b), avail),
             LAMBDA w2 :
        With(block_link_next(
                 WrHeader(w2, prev,
                          BitOr(new_size, BitAnd(RdHeader(w2, prev), BLOCK_BIT_PREV_FREE))),
                 prev),
             LAMBDA w4 :
        With(IF ~next_free THEN w4
             ELSE With(block_remove(w4, next), LAMBDA x1 :
                      block_link_next(WrHeader(x1, prev, RdHeader(x1, prev)
                                               + block_size(x1, next) + BLOCK_OVERHEAD),
                                      prev)),
             LAMBDA w5 :
            [w |-> block_rtrim_used(block_set_prev_free(w5, block_next(w5, prev), FALSE),
                                    prev, size),
             ret |-> block_payload(prev)])))

realloc_backward(w, b, prev, next, next_free, avail, size) ==
    LET prev_size == block_size(w, prev)
        new_size == prev_size + avail + BLOCK_OVERHEAD
    IN  With(memmove(block_remove(w, prev), block_payload(prev), block_payload(b), avail),
             LAMBDA w2 :
        With(block_link_next(
                 WrHeader(w2, prev,
                          BitOr(new_size, BitAnd(RdHeader(w2, prev), BLOCK_BIT_PREV_FREE))),
                 prev),
             LAMBDA w4 :
        With(IF ~next_free THEN w4
             ELSE With(block_remove(w4, next), LAMBDA x1 :
                      block_link_next(WrHeader(x1, prev, RdHeader(x1, prev)
                                               + block_size(x1, next) + BLOCK_OVERHEAD),
                                      prev)),
             LAMBDA w5 :
            [w |-> block_rtrim_used(block_set_prev_free(w5, block_next(w5, prev), FALSE),
                                    prev, size),
             ret |-> block_payload(prev)])))

(* A fault-seeded tlsf_realloc that serves every resize of a live block by *)
(* allocating a new block, copying and freeing the old one.               *)
tlsf_realloc_always_move(w, mem, n) ==
    IF mem # NULL /\ n = 0 THEN [w |-> tlsf_free(w, mem), ret |-> NULL]
    ELSE IF mem = NULL THEN tlsf_malloc(w, n)
    ELSE IF adjust_size(n, ALIGN_SIZE) > TLSF_MAX_SIZE THEN [w |-> w, ret |-> NULL]
    ELSE realloc_relocate(w, mem, adjust_size(n, ALIGN_SIZE),
                          block_size(w, block_from_payload(mem)))

(* A fault-seeded tlsf_realloc that tries the backward expansion before the *)
(* forward one.                                                            *)
tlsf_realloc_backward_first(w, mem, n) ==
    IF mem # NULL /\ n = 0 THEN [w |-> tlsf_free(w, mem), ret |-> NULL]
    ELSE IF mem = NULL THEN tlsf_malloc(w, n)
    ELSE
    LET b == block_from_payload(mem)
        avail == block_size(w, b)
        size == adjust_size(n, ALIGN_SIZE)
        next == block_next(w, b)
        next_free == block_is_free(w, next)
        next_size == IF next_free THEN block_size(w, next) + BLOCK_OVERHEAD ELSE 0
    IN  IF size > TLSF_MAX_SIZE THEN [w |-> w, ret |-> NULL]
        ELSE IF size <= avail THEN [w |-> block_rtrim_used(w, b, size), ret |-> mem]
        ELSE IF block_is_prev_free(w, b)
                /\ size <= block_size(w, block_prev(w, b)) + avail + BLOCK_OVERHEAD + next_size
        THEN realloc_backward(w, b, block_prev(w, b), next, next_free, avail, size)
        ELSE IF next_free /\ size <= avail + next_size
        THEN With(block_merge_next(w, b), LAMBDA m :
                 [w |-> block_rtrim_used(
                            block_set_prev_free(m.w, block_next(m.w, b), FALSE), b, size),
                  ret |-> mem])
        ELSE realloc_relocate(w, mem, size, avail)

tlsf_realloc(w, mem, n) ==
    IF mem # NULL /\ n = 0 THEN [w |-> tlsf_free(w, mem), ret |-> NULL]
    ELSE IF mem = NULL THEN tlsf_malloc(w, n)
    ELSE
    LET b == block_from_payload(mem)
        avail == block_size(w, b)
        size == adjust_size(n, ALIGN_SIZE)
        next == block_next(w, b)
        next_free == block_is_free(w, next)
        next_size == IF next_free THEN block_size(w, next) + BLOCK_OVERHEAD ELSE 0
    IN  IF size > TLSF_MAX_SIZE THEN [w |-> w, ret |-> NULL]
        ELSE IF size <= avail THEN [w |-> block_rtrim_used(w, b, size), ret |-> mem]
        ELSE IF next_free /\ size <= avail + next_size
        THEN With(block_merge_next(w, b), LAMBDA m :
                 [w |-> block_rtrim_used(
                            block_set_prev_free(m.w, block_next(m.w, b), FALSE), b, size),
                  ret |-> mem])
        ELSE IF block_is_prev_free(w, b)
                /\ size <= block_size(w, block_prev(w, b)) + avail + BLOCK_OVERHEAD + next_size
        THEN realloc_backward(w, b, block_prev(w, b), next, next_free, avail, size)
        ELSE realloc_relocate(w, mem, size, avail)

tlsf_append_pool(w, mem, size) ==
    IF mem = NULL \/ size = 0 THEN [w |-> w, ret |-> 0]
    ELSE arena_append_pool(w, mem, size)

(* The control structure after it has been zeroed by memset. *)
ZeroTlsf ==
    [fl |-> {}, sl |-> [i \in 0 .. FL_COUNT - 1 |-> {}], arena |-> NULL, size |-> 0,
     block |-> [i \in 0 .. FL_COUNT - 1 |-> [j \in 0 .. SL_COUNT - 1 |-> NULL]],
     block_null |-> [next_free |-> NULL, prev_free |-> NULL]]

(* A fault-seeded tlsf_pool_init that leaves the end-sentinel's PREV_FREE *)
(* flag clear.                                                          *)
tlsf_pool_init_plain_sentinel(w, mem, bytes) ==
    IF mem = NULL THEN [w |-> w, ret |-> 0]
    ELSE
    LET w0 == [w EXCEPT !.t = [ZeroTlsf EXCEPT !.block = EmptyBins]]
        start == align_ptr(mem, ALIGN_SIZE)
        adj == start - mem
        pool_bytes == (bytes - adj) - ((bytes - adj) % ALIGN_SIZE)
        free_size == (pool_bytes - 2 * BLOCK_OVERHEAD)
                     - ((pool_bytes - 2 * BLOCK_OVERHEAD) % ALIGN_SIZE)
    IN  IF bytes <= adj THEN [w |-> w0, ret |-> 0]
        ELSE IF pool_bytes < 2 * BLOCK_OVERHEAD + BLOCK_SIZE_MIN THEN [w |-> w0, ret |-> 0]
        ELSE IF free_size < BLOCK_SIZE_MIN \/ free_size > BLOCK_SIZE_MAX
        THEN [w |-> w0, ret |-> 0]
        ELSE LET w1 == [w0 EXCEPT !.t.arena = start]
                 b == start - BLOCK_OVERHEAD
                 w2 == WrHeader(w1, b, BitOr(free_size, BLOCK_BIT_FREE))
                 w3 == block_insert(w2, b)
                 sentinel == block_next(w3, b)
                 w4 == block_link_next(w3, b)
                 w5 == WrHeader(w4, sentinel, 0)
             IN  [w |-> [w5 EXCEPT !.t.size = free_size + 2 * BLOCK_OVERHEAD],
                  ret |-> free_size]

(* A fault-seeded tlsf_pool_init that accepts a region whose free block *)
(* would exceed BLOCK_SIZE_MAX.                                        *)
tlsf_pool_init_no_max(w, mem, bytes) ==
    IF mem = NULL THEN [w |-> w, ret |-> 0]
    ELSE
    LET w0 == [w EXCEPT !.t = [ZeroTlsf EXCEPT !.block = EmptyBins]]
        start == align_ptr(mem, ALIGN_SIZE)
        adj == start - mem
        pool_bytes == (bytes - adj) - ((bytes - adj) % ALIGN_SIZE)
        free_size == (pool_bytes - 2 * BLOCK_OVERHEAD)
                     - ((pool_bytes - 2 * BLOCK_OVERHEAD) % ALIGN_SIZE)
    IN  IF bytes <= adj THEN [w |-> w0, ret |-> 0]
        ELSE IF pool_bytes < 2 * BLOCK_OVERHEAD + BLOCK_SIZE_MIN THEN [w |-> w0, ret |-> 0]
        ELSE IF free_size < BLOCK_SIZE_MIN THEN [w |-> w0, ret |-> 0]
        ELSE LET w1 == [w0 EXCEPT !.t.arena = start]
                 b == start - BLOCK_OVERHEAD
                 w2 == WrHeader(w1, b, BitOr(free_size, BLOCK_BIT_FREE))
                 w3 == block_insert(w2, b)
                 sentinel == block_next(w3, b)
                 w4 == block_link_next(w3, b)
                 w5 == WrHeader(w4, sentinel, BLOCK_BIT_PREV_FREE)
             IN  [w |-> [w5 EXCEPT !.t.size = free_size + 2 * BLOCK_OVERHEAD],
                  ret |-> free_size]

tlsf_pool_init(w, mem, bytes) ==
    IF mem = NULL THEN [w |-> w, ret |-> 0]
    ELSE
    LET w0 == [w EXCEPT !.t = [ZeroTlsf EXCEPT !.block = EmptyBins]]
        start == align_ptr(mem, ALIGN_SIZE)
        adj == start - mem
        pool_bytes == (bytes - adj) - ((bytes - adj) % ALIGN_SIZE)
        free_size == (pool_bytes - 2 * BLOCK_OVERHEAD)
                     - ((pool_bytes - 2 * BLOCK_OVERHEAD) % ALIGN_SIZE)
    IN  IF bytes <= adj THEN [w |-> w0, ret |-> 0]
        ELSE IF pool_bytes < 2 * BLOCK_OVERHEAD + BLOCK_SIZE_MIN THEN [w |-> w0, ret |-> 0]
        ELSE IF free_size < BLOCK_SIZE_MIN \/ free_size > BLOCK_SIZE_MAX
        THEN [w |-> w0, ret |-> 0]
        ELSE LET w1 == [w0 EXCEPT !.t.arena = start]
                 b == start - BLOCK_OVERHEAD
                 w2 == WrHeader(w1, b, BitOr(free_size, BLOCK_BIT_FREE))
                 w3 == block_insert(w2, b)
                 sentinel == block_next(w3, b)
                 w4 == block_link_next(w3, b)
                 w5 == WrHeader(w4, sentinel, BLOCK_BIT_PREV_FREE)
             IN  [w |-> [w5 EXCEPT !.t.size = free_size + 2 * BLOCK_OVERHEAD],
                  ret |-> free_size]

(* tlsf_pool_reset is declared and documented in include/tlsf.h but not   *)
(* defined in the sources at hand; this is its documented behaviour.  On  *)
(* a pool created with tlsf_pool_init it clears the bitmaps, points every *)
(* bin at the sentinel and recreates a single free block spanning the     *)
(* pool, followed by the end-sentinel, as tlsf_pool_init lays them out;   *)
(* on a dynamic pool or an uninitialised instance it does nothing.        *)
tlsf_pool_reset(w) ==
    IF w.t.arena = NULL \/ w.t.size = 0 THEN w
    ELSE LET free_size == w.t.size - 2 * BLOCK_OVERHEAD
             b == w.t.arena - BLOCK_OVERHEAD
             w1 == [w EXCEPT !.t.fl = {},
                             !.t.sl = [i \in 0 .. FL_COUNT - 1 |-> {}],
                             !.t.block = EmptyBins]
             w2 == WrHeader(w1, b, BitOr(free_size, BLOCK_BIT_FREE))
             w3 == block_insert(w2, b)
             sentinel == block_next(w3, b)
             w4 == block_link_next(w3, b)
         IN  WrHeader(w4, sentinel, BLOCK_BIT_PREV_FREE)

(* ------------------------------------------------------------------ *)
(* The state machine: a caller issuing public operations on one pool   *)
(* ------------------------------------------------------------------ *)
MaxLive == 3
MaxLiveLarge == 1

IsLarge == MemBytes(heap) > SmallHeapBytes

LiveBound == IF IsLarge THEN MaxLiveLarge ELSE MaxLive

PoolEnd == (IF tlsf.arena # NULL THEN tlsf.arena ELSE HeapBase) + tlsf.size

(* The largest size the checker's integers hold: rounding it up to ALIGN_SIZE *)
(* leaves their range, as rounding a size near SIZE_MAX leaves size_t's.     *)
HugeSize == 2 ^ 30 + (2 ^ 30 - 1)

(* A fixed pool is also asked for all its bytes but one block overhead. *)
ReqSizes ==
    IF IsLarge
    THEN {257, 520, TLSF_MAX_SIZE + 1, HugeSize}
         \cup (IF tlsf.arena # NULL THEN {tlsf.size - 3 * BLOCK_OVERHEAD} ELSE {})
    ELSE {0, 40, 100}
AlignedReqs ==
    IF IsLarge THEN {<<64, 257>>, <<0, 257>>, <<24, 257>>, <<1024, 1000>>, <<2048, 0>>,
                     <<64, HugeSize>>}
    ELSE {<<0, 40>>, <<24, 40>>, <<8, 40>>, <<16, 0>>, <<16, 20>>, <<64, 40>>}
PoolBytes == IF IsLarge THEN {1056, 2064, 2080} ELSE {8, 131}
PoolMems == {HeapBase, HeapBase - 3}
AppendReqs ==
    IF IsLarge THEN {<<NULL, 40>>, <<PoolEnd, 40>>}
    ELSE {<<NULL, 40>>, <<PoolEnd, 8>>, <<PoolEnd, 24>>, <<PoolEnd, 40>>, <<PoolEnd + 3, 40>>}
ReallocReqs ==
    IF IsLarge THEN {<<NULL, 40>>, <<NULL, TLSF_MAX_SIZE + 1>>}
                   \cup (live \X {257, 520, TLSF_MAX_SIZE + 1, HugeSize})
    ELSE {<<NULL, 40>>} \cup (live \X {0, 24, 100})

World == [t |-> tlsf, mem |-> heap, brk |-> brk]

(* The words the allocator owns: every block header of the chain and, for a *)
(* free block, its two list links and the prev field of its successor.      *)
RECURSIVE MetaWords(_, _, _)
MetaWords(w, b, fuel) ==
    LET hdr == (b + OFF_HEADER) \div SIZEOF_SIZE_T
    IN  IF fuel = 0 \/ hdr \notin DOMAIN w.mem THEN {}
        ELSE IF block_size(w, b) = 0 THEN {hdr}
        ELSE {hdr}
             \cup (IF block_is_free(w, b)
                   THEN {(b + OFF_NEXT_FREE) \div SIZEOF_SIZE_T,
                         (b + OFF_PREV_FREE) \div SIZEOF_SIZE_T,
                         (block_next(w, b) + OFF_PREV) \div SIZEOF_SIZE_T}
                   ELSE {})
             \cup MetaWords(w, block_next(w, b), fuel - 1)

(* Every other word belongs to the caller or to nobody: the caller may have *)
(* written anything there, and the model keeps the value Dead in it, which  *)
(* is no valid header and no valid pointer.                                 *)
Scribble(w) ==
    LET base == IF w.t.arena # NULL THEN w.t.arena ELSE HeapBase
        meta == IF w.t.size = 0 THEN {}
                ELSE MetaWords(w, base - BLOCK_OVERHEAD, MemBytes(w.mem) \div SIZEOF_BLOCK + 2)
    IN  [w EXCEPT !.mem = [a \in DOMAIN w.mem |-> IF a \in meta THEN w.mem[a] ELSE Dead]]

SetWorld(w) ==
    LET v == Scribble(w)
    IN  tlsf' = v.t /\ heap' = v.mem /\ brk' = v.brk

Call(op, ptr, align, n, ret) ==
    [op |-> op, ptr |-> ptr, align |-> align, n |-> n, ret |-> ret]

InitWith(bytes) ==
    /\ tlsf = ZeroTlsf
    /\ heap = [a \in HeapWords(bytes) |-> Dead]
    /\ brk = 0
    /\ live = {}
    /\ last = Call("none", NULL, 0, 0, 0)
    /\ ts = [arenas |-> <<>>, count |-> 0]
    /\ thr = <<>>

Init == InitWith(SmallHeapBytes)

InitLarge == InitWith(LargeHeapBytes)

(* The caller's view of a finished call: the pool as the call left it, the *)
(* set of pointers the caller holds, and the call with its return value.   *)
Returned(op, ptr, align, n, r) ==
    /\ SetWorld(r.w)
    /\ live' = CASE op = "pool_init" -> {}
                 [] op = "pool_reset" -> IF tlsf.arena # NULL THEN {} ELSE live
                 [] op \in {"malloc", "aalloc"} ->
                        IF r.ret = NULL THEN live ELSE live \cup {r.ret}
                 [] op = "realloc" ->
                        IF r.ret # NULL THEN (live \ {ptr}) \cup {r.ret}
                        ELSE IF n = 0 THEN live \ {ptr}
                        ELSE live
                 [] op = "free" -> live \ {ptr}
                 [] OTHER -> live
    /\ last' = Call(op, ptr, align, n, r.ret)
    /\ UNCHANGED <<ts, thr>>

PoolInit(mem, bytes) ==
    /\ last.op = "none"
    /\ Returned("pool_init", mem, 0, bytes, tlsf_pool_init(World, mem, bytes))

Malloc(n) ==
    /\ Cardinality(live) < LiveBound
    /\ Returned("malloc", NULL, 0, n, tlsf_malloc(World, n))

Aalloc(align, n) ==
    /\ Cardinality(live) < LiveBound
    /\ Returned("aalloc", NULL, align, n, tlsf_aalloc(World, align, n))

Realloc(p, n) ==
    /\ p = NULL => Cardinality(live) < LiveBound
    /\ Returned("realloc", p, 0, n, tlsf_realloc(World, p, n))

Free(p) ==
    Returned("free", p, 0, 0, [w |-> tlsf_free(World, p), ret |-> 0])

AppendPool(mem, size) ==
    /\ mem # NULL => mem + size <= HeapBase + MemBytes(heap)
    /\ Returned("append_pool", mem, 0, size, tlsf_append_pool(World, mem, size))

(* Every pointer the caller holds is invalid after a reset of a fixed pool. *)
PoolReset ==
    Returned("pool_reset", NULL, 0, 0, [w |-> tlsf_pool_reset(World), ret |-> 0])

Next ==
    \/ \E mem \in PoolMems \cup {NULL}, bytes \in PoolBytes : PoolInit(mem, bytes)
    \/ \E n \in ReqSizes : Malloc(n)
    \/ \E a \in AlignedReqs : Aalloc(a[1], a[2])
    \/ \E r \in ReallocReqs : Realloc(r[1], r[2])
    \/ \E p \in live \cup {NULL} : Free(p)
    \/ \E a \in AppendReqs : AppendPool(a[1], a[2])
    \/ PoolReset

Spec == Init /\ [][Next]_vars

SpecLarge == InitLarge /\ [][Next]_vars

(* ------------------------------------------------------------------ *)
(* The thread-safe wrapper (src/src/tlsf_thread.c)                     *)
(* ------------------------------------------------------------------ *)
(* The build has TLSF_ARENA_COUNT lowered to 2.  Each arena has its own *)
(* control structure, its own part of the memory and its own lock; a    *)
(* lock holds the thread that owns it, or UNLOCKED.                     *)
TLSF_ARENA_COUNT == 2
TLSF_CACHELINE_SIZE == 64
MIN_ARENA == 256
HASH_MULT == 73244475
UNLOCKED == 0

(* NumThreads threads call the wrapper.  The first NumFullApi of them use *)
(* the whole interface and own at most MaxOwn pointers each; the others   *)
(* compete with tlsf_thread_malloc and tlsf_thread_free only and own at   *)
(* most one pointer more, enough to exhaust every arena.                  *)
NumThreads == 2
NumFullApi == 1
MaxOwn == 1
Threads == 1 .. NumThreads
FullApi == 1 .. NumFullApi
OwnCap(th) == IF th \in FullApi THEN MaxOwn ELSE MaxOwn + 1

(* An unsigned 32-bit value as four 8-bit limbs, least significant first. *)
Limbs(x) == [k \in 0 .. 3 |-> (x \div (256 ^ k)) % 256]

RECURSIVE BitXor(_, _)
BitXor(a, b) ==
    IF a = 0 THEN b
    ELSE IF b = 0 THEN a
    ELSE (IF a % 2 # b % 2 THEN 1 ELSE 0) + 2 * BitXor(a \div 2, b \div 2)

(* h ^ (h >> 16) *)
XorShift16(h) == [k \in 0 .. 3 |-> IF k < 2 THEN BitXor(h[k], h[k + 2]) ELSE h[k]]

(* (a * b) mod 2^32 *)
Mul32(a, b) ==
    LET s0 == a[0] * b[0]
        s1 == a[0] * b[1] + a[1] * b[0] + s0 \div 256
        s2 == a[0] * b[2] + a[1] * b[1] + a[2] * b[0] + s1 \div 256
        s3 == a[0] * b[3] + a[1] * b[2] + a[2] * b[1] + a[3] * b[0] + s2 \div 256
    IN  [k \in 0 .. 3 |-> (CASE k = 0 -> s0 [] k = 1 -> s1 [] k = 2 -> s2 [] OTHER -> s3) % 256]

(* h % n *)
Mod32(h, n) == ((((((h[3] % n) * 256 + h[2]) % n) * 256 + h[1]) % n) * 256 + h[0]) % n

(* The preferred arena of a thread whose TLSF_THREAD_HINT() is hint. *)
arena_select(count, hint) ==
    Mod32(XorShift16(Mul32(XorShift16(Limbs(hint)), Limbs(HASH_MULT))), count)

(* The arena whose memory holds ptr, -1 if none. *)
arena_find(t, ptr) ==
    LET owners == {i \in 0 .. t.count - 1 :
                      ptr >= t.arenas[i].base /\ ptr - t.arenas[i].base < t.arenas[i].capacity}
    IN  IF owners = {} THEN 0 - 1 ELSE Min(owners)

ZeroArena == [pool |-> ZeroTlsf, mem |-> <<>>, lock |-> UNLOCKED, base |-> NULL, capacity |-> 0]

ZeroTs == [arenas |-> [i \in 0 .. TLSF_ARENA_COUNT - 1 |-> ZeroArena], count |-> 0]

(* A fault-seeded count that is never reduced. *)
ViableCount_fixed(count, bytes) == count

RECURSIVE ViableCount(_, _)
ViableCount(count, bytes) ==
    IF count > 1 /\ bytes \div count < MIN_ARENA THEN ViableCount(count \div 2, bytes)
    ELSE count

(* The pool of one arena as the pool core sees it. *)
ArenaWorld(a) == [t |-> a.pool, mem |-> a.mem, brk |-> 0]

(* A fault-seeded layout that starts every arena at the same address. *)
arena_base_shared(mem, i, per_arena) == mem

(* The start of arena i: base + i * per_arena. *)
arena_base(mem, i, per_arena) == mem + i * per_arena

tlsf_thread_init(mem, bytes) ==
    IF mem = NULL \/ bytes = 0 THEN [ts |-> ZeroTs, ret |-> 0]
    ELSE
    LET count == ViableCount(TLSF_ARENA_COUNT, bytes)
        per_arena == ((bytes \div count) \div TLSF_CACHELINE_SIZE) * TLSF_CACHELINE_SIZE
        chunk(i) == IF i = count - 1 THEN bytes - i * per_arena ELSE per_arena
        base(i) == arena_base(mem, i, per_arena)
        region(i) == [a \in (base(i) \div SIZEOF_SIZE_T) ..
                               ((base(i) + chunk(i)) \div SIZEOF_SIZE_T - 1) |-> Dead]
        init(i) == tlsf_pool_init([t |-> ZeroTlsf, mem |-> region(i), brk |-> 0],
                                  base(i), chunk(i))
    IN  IF \E i \in 0 .. count - 1 : init(i).ret = 0 THEN [ts |-> ZeroTs, ret |-> 0]
        ELSE [ts |-> [arenas |-> [i \in 0 .. TLSF_ARENA_COUNT - 1 |->
                                     IF i >= count THEN ZeroArena
                                     ELSE [pool |-> init(i).w.t, mem |-> init(i).w.mem,
                                           lock |-> UNLOCKED, base |-> base(i),
                                           capacity |-> chunk(i)]],
                      count |-> count],
              ret |-> SumSeq([k \in 1 .. count |-> init(k - 1).ret])]

(* tlsf_usable_size is called by the wrapper but not defined in the       *)
(* sources at hand: the payload size of the block behind ptr.             *)
tlsf_usable_size(w, ptr) == block_size(w, block_from_payload(ptr))

(* A thread between two calls: it only remembers its hint and the *)
(* pointers it owns.                                              *)
Idle(t, own) ==
    [pc |-> "idle", hint |-> t.hint, own |-> own, op |-> "none", phase |-> "none",
     idx |-> 0, owner |-> 0, i |-> 0, pref |-> 0, size |-> 0, align |-> 0,
     ptr |-> NULL, res |-> NULL, old_size |-> 0, hist |-> <<>>]

MallocPhases == {"fast", "p1", "p2"}

(* The end of tlsf_thread_malloc with result p: the return to the caller, *)
(* or, inside tlsf_thread_realloc, the copy into the new block.           *)
MallocDone(t, p) ==
    IF t.op = "realloc" /\ t.ptr # NULL
    THEN IF p = NULL THEN Idle(t, t.own)
         ELSE [t EXCEPT !.pc = "copy", !.phase = "copy", !.res = p, !.hist = <<>>]
    ELSE Idle(t, IF p = NULL THEN t.own ELSE t.own \cup {p})

(* A fault-seeded second phase that gives up without a blocking attempt. *)
fallback_phase2_none(t, count) == MallocDone(t, NULL)

(* The head of the blocking loop of arena_fallback_malloc, at index t.i. *)
(* A fault-seeded phase 2 that starts over, forgetting its attempts, when *)
(* every arena has failed.                                               *)
fallback_phase2_again(t, count) ==
    IF t.i < count
    THEN [t EXCEPT !.pc = "acquire", !.phase = "p2", !.idx = (t.pref + t.i) % count]
    ELSE [t EXCEPT !.pc = "acquire", !.phase = "p2", !.idx = t.pref, !.i = 0,
                   !.hist = <<>>]

fallback_phase2(t, count) ==
    IF t.i < count
    THEN [t EXCEPT !.pc = "acquire", !.phase = "p2", !.idx = (t.pref + t.i) % count]
    ELSE MallocDone(t, NULL)

(* The head of the non-blocking loop of arena_fallback_malloc, at t.i. *)
fallback_phase1(t, count) ==
    IF t.i < count
    THEN [t EXCEPT !.pc = "try", !.phase = "p1", !.idx = (t.pref + t.i) % count]
    ELSE fallback_phase2([t EXCEPT !.i = 1], count)

(* A fault-seeded fallback whose scan starts at the arena to skip. *)
arena_fallback_from_skip(t, count) == fallback_phase1([t EXCEPT !.i = 0], count)

arena_fallback_malloc(t, count) == fallback_phase1([t EXCEPT !.i = 1], count)

tlsf_thread_malloc(t, count) ==
    IF count = 0 THEN MallocDone(t, NULL)
    ELSE [t EXCEPT !.pc = "acquire", !.phase = "fast",
                   !.pref = arena_select(count, t.hint),
                   !.idx = arena_select(count, t.hint),
                   !.i = 0, !.res = NULL, !.hist = <<>>]

(* A fault-seeded tlsf_thread_free that forgets the block. *)
tlsf_thread_free_forget(t, tsv) == Idle(t, t.own \ {t.ptr})

(* A fault-seeded tlsf_thread_free that enters the pool without the lock. *)
tlsf_thread_free_unlocked(t, tsv) ==
    IF t.ptr = NULL \/ arena_find(tsv, t.ptr) < 0 THEN Idle(t, t.own)
    ELSE [t EXCEPT !.pc = "call", !.phase = "free", !.idx = arena_find(tsv, t.ptr)]

tlsf_thread_free(t, tsv) ==
    IF t.ptr = NULL \/ arena_find(tsv, t.ptr) < 0 THEN Idle(t, t.own)
    ELSE [t EXCEPT !.pc = "acquire", !.phase = "free", !.idx = arena_find(tsv, t.ptr)]

tlsf_thread_realloc(t, tsv) ==
    IF t.ptr = NULL THEN tlsf_thread_malloc(t, tsv.count)
    ELSE IF t.size = 0 THEN tlsf_thread_free(t, tsv)
    ELSE IF arena_find(tsv, t.ptr) < 0 THEN Idle(t, t.own)
    ELSE [t EXCEPT !.pc = "acquire", !.phase = "realloc",
                   !.idx = arena_find(tsv, t.ptr), !.owner = arena_find(tsv, t.ptr)]

(* tlsf_thread_check, tlsf_thread_stats and tlsf_thread_reset visit every *)
(* arena in order, each under its lock.                                  *)
tlsf_thread_sweep(t, count) ==
    IF count = 0 THEN Idle(t, t.own)
    ELSE [t EXCEPT !.pc = "acquire", !.phase = t.op, !.idx = 0, !.i = 0]

(* The pool core call a thread makes under the lock of arena t.idx. *)
PoolCall(t, w) ==
    CASE t.phase \in MallocPhases ->
             IF t.op = "aalloc" THEN tlsf_aalloc(w, t.align, t.size)
             ELSE tlsf_malloc(w, t.size)
      [] t.phase \in {"free", "refree"} -> [w |-> tlsf_free(w, t.ptr), ret |-> t.res]
      [] t.phase = "realloc" -> tlsf_realloc(w, t.ptr, t.size)
      [] t.phase = "reset" -> [w |-> tlsf_pool_reset(w), ret |-> t.res]
      [] OTHER -> [w |-> w, ret |-> t.res]

(* What a thread does after it has released the lock of arena t.idx. *)
AfterRelease(t, count) ==
    CASE t.phase = "fast" ->
             IF t.res # NULL THEN MallocDone(t, t.res) ELSE arena_fallback_malloc(t, count)
      [] t.phase = "p1" ->
             IF t.res # NULL THEN MallocDone(t, t.res)
             ELSE fallback_phase1([t EXCEPT !.i = @ + 1], count)
      [] t.phase = "p2" ->
             IF t.res # NULL THEN MallocDone(t, t.res)
             ELSE fallback_phase2([t EXCEPT !.i = @ + 1], count)
      [] t.phase = "free" -> Idle(t, t.own \ {t.ptr})
      [] t.phase = "realloc" ->
             IF t.res # NULL THEN Idle(t, (t.own \ {t.ptr}) \cup {t.res})
             ELSE tlsf_thread_malloc(t, count)
      [] t.phase = "refree" -> Idle(t, (t.own \ {t.ptr}) \cup {t.res})
      [] OTHER ->
             IF t.i + 1 < count
             THEN [t EXCEPT !.pc = "acquire", !.idx = t.i + 1, !.i = t.i + 1]
             ELSE Idle(t, t.own)

(* The requests the threads make. *)
ThreadBytes == {16, 304, 520}
ThreadHints == {2, 8}
ThreadSizes == {200, 300}
ThreadAligned == {<<64, 40>>}
ThreadResizes == {0, 24, 100}
ThreadSweeps == {"check", "stats", "reset"}

(* Pointers that no arena has handed out: just below the memory given to *)
(* tlsf_thread_init and just past the largest one.                       *)
ThreadForeign == {HeapBase - SIZEOF_SIZE_T, HeapBase + Max(ThreadBytes)}

InitThread ==
    /\ tlsf = ZeroTlsf
    /\ heap = <<>>
    /\ brk = 0
    /\ live = {}
    /\ last = Call("none", NULL, 0, 0, 0)
    /\ \E bytes \in ThreadBytes : ts = tlsf_thread_init(HeapBase, bytes).ts
    /\ \E h \in ThreadHints :
           thr = [th \in Threads |-> Idle([hint |-> IF th = 1 THEN 1 ELSE h], {})]

SetThread(th, t) == thr' = [thr EXCEPT ![th] = t]

(* reset needs quiescence: no other thread is inside a call, and no call *)
(* starts while a reset is under way; it invalidates every pointer.      *)
Quiescent(th) == \A o \in Threads \ {th} : thr[o].pc = "idle"

NoReset == \A o \in Threads : thr[o].op # "reset"

StartMalloc(th, n) ==
    /\ thr[th].pc = "idle" /\ NoReset
    /\ Cardinality(thr[th].own) < OwnCap(th)
    /\ SetThread(th, tlsf_thread_malloc([thr[th] EXCEPT !.op = "malloc", !.size = n],
                                        ts.count))
    /\ UNCHANGED <<tlsf, heap, brk, live, last, ts>>

StartAalloc(th, align, n) ==
    /\ thr[th].pc = "idle" /\ NoReset
    /\ Cardinality(thr[th].own) < OwnCap(th)
    /\ SetThread(th, tlsf_thread_malloc(
                         [thr[th] EXCEPT !.op = "aalloc", !.align = align, !.size = n],
                         ts.count))
    /\ UNCHANGED <<tlsf, heap, brk, live, last, ts>>

StartFree(th, p) ==
    /\ thr[th].pc = "idle" /\ NoReset
    /\ SetThread(th, tlsf_thread_free([thr[th] EXCEPT !.op = "free", !.ptr = p], ts))
    /\ UNCHANGED <<tlsf, heap, brk, live, last, ts>>

StartRealloc(th, p, n) ==
    /\ thr[th].pc = "idle" /\ NoReset
    /\ p = NULL => Cardinality(thr[th].own) < OwnCap(th)
    /\ SetThread(th, tlsf_thread_realloc(
                         [thr[th] EXCEPT !.op = "realloc", !.ptr = p, !.size = n], ts))
    /\ UNCHANGED <<tlsf, heap, brk, live, last, ts>>

StartSweep(th, op) ==
    /\ thr[th].pc = "idle" /\ NoReset
    /\ op = "reset" => Quiescent(th)
    /\ thr' = [o \in Threads |->
                  IF o = th
                  THEN tlsf_thread_sweep(
                           [thr[th] EXCEPT !.op = op,
                                           !.own = IF op = "reset" THEN {} ELSE @],
                           ts.count)
                  ELSE IF op = "reset" THEN Idle(thr[o], {}) ELSE thr[o]]
    /\ UNCHANGED <<tlsf, heap, brk, live, last, ts>>

(* TLSF_LOCK_ACQUIRE: the thread waits until the lock is free. *)
Acquire(th) ==
    /\ thr[th].pc = "acquire"
    /\ ts.arenas[thr[th].idx].lock = UNLOCKED
    /\ ts' = [ts EXCEPT !.arenas[thr[th].idx].lock = th]
    /\ SetThread(th, [thr[th] EXCEPT !.pc = "call"])
    /\ UNCHANGED <<tlsf, heap, brk, live, last>>

(* TLSF_LOCK_TRY: the thread takes the lock if it is free and moves on to *)
(* the next arena if it is not.                                          *)
Try(th) ==
    /\ thr[th].pc = "try"
    /\ IF ts.arenas[thr[th].idx].lock = UNLOCKED
       THEN /\ ts' = [ts EXCEPT !.arenas[thr[th].idx].lock = th]
            /\ SetThread(th, [thr[th] EXCEPT !.pc = "call"])
       ELSE /\ ts' = ts
            /\ SetThread(th, fallback_phase1(
                   [thr[th] EXCEPT !.i = @ + 1,
                                   !.hist = Append(@, [arena |-> thr[th].idx,
                                                       kind |-> "busy", ok |-> FALSE])],
                   ts.count))
    /\ UNCHANGED <<tlsf, heap, brk, live, last>>

(* The pool core call between acquire and release. *)
CallPool(th) ==
    /\ thr[th].pc = "call"
    /\ With(PoolCall(thr[th], ArenaWorld(ts.arenas[thr[th].idx])), LAMBDA r :
           /\ ts' = [ts EXCEPT !.arenas[thr[th].idx].pool = Scribble(r.w).t,
                               !.arenas[thr[th].idx].mem = Scribble(r.w).mem]
           /\ SetThread(th, [thr[th] EXCEPT
                  !.pc = "release",
                  !.res = r.ret,
                  !.old_size = IF thr[th].phase = "realloc"
                               THEN tlsf_usable_size(ArenaWorld(ts.arenas[thr[th].idx]),
                                                     thr[th].ptr)
                               ELSE @,
                  !.hist = IF thr[th].phase \in MallocPhases
                           THEN Append(@, [arena |-> thr[th].idx,
                                           kind |-> IF thr[th].phase = "p1" THEN "try"
                                                    ELSE "block",
                                           ok |-> r.ret # NULL])
                           ELSE @]))
    /\ UNCHANGED <<tlsf, heap, brk, live, last>>

(* A fault-seeded release that is skipped when a tlsf_malloc or tlsf_aalloc *)
(* under the lock has failed.                                              *)
Release_on_success(th) ==
    /\ thr[th].pc = "release"
    /\ ts' = IF thr[th].phase \in MallocPhases /\ thr[th].res = NULL THEN ts
             ELSE [ts EXCEPT !.arenas[thr[th].idx].lock = UNLOCKED]
    /\ SetThread(th, AfterRelease(thr[th], ts.count))
    /\ UNCHANGED <<tlsf, heap, brk, live, last>>

(* TLSF_LOCK_RELEASE and the code up to the next lock operation or return. *)
Release(th) ==
    /\ thr[th].pc = "release"
    /\ ts' = [ts EXCEPT !.arenas[thr[th].idx].lock = UNLOCKED]
    /\ SetThread(th, AfterRelease(thr[th], ts.count))
    /\ UNCHANGED <<tlsf, heap, brk, live, last>>

(* A fault-seeded copy that moves nothing. *)
thread_memcpy_nothing(tsv, t) == tsv

(* memcpy(new_ptr, ptr, copy_size) of tlsf_thread_realloc: the first       *)
(* min(old_size, size) bytes of the old block, in arena t.owner, go to the *)
(* new block t.res, which may lie in another arena.                        *)
thread_memcpy(tsv, t) ==
    LET d == arena_find(tsv, t.res)
        copy_size == IF t.old_size < t.size THEN t.old_size ELSE t.size
    IN  [tsv EXCEPT !.arenas[d].mem =
            [a \in DOMAIN tsv.arenas[d].mem |->
                IF a * SIZEOF_SIZE_T >= t.res /\ a * SIZEOF_SIZE_T < t.res + copy_size
                THEN tsv.arenas[t.owner].mem[
                         (a * SIZEOF_SIZE_T - t.res + t.ptr) \div SIZEOF_SIZE_T]
                ELSE tsv.arenas[d].mem[a]]]

(* The copy step of tlsf_thread_realloc; no lock is held. *)
Copy(th) ==
    /\ thr[th].pc = "copy"
    /\ ts' = thread_memcpy(ts, thr[th])
    /\ SetThread(th, [thr[th] EXCEPT !.pc = "acquire", !.phase = "refree",
                                     !.idx = thr[th].owner])
    /\ UNCHANGED <<tlsf, heap, brk, live, last>>

NextThread ==
    \/ \E th \in Threads, n \in ThreadSizes : StartMalloc(th, n)
    \/ \E th \in FullApi, a \in ThreadAligned : StartAalloc(th, a[1], a[2])
    \/ \E th \in Threads : \E p \in thr[th].own \cup {NULL} \cup ThreadForeign :
           StartFree(th, p)
    \/ \E th \in FullApi :
           \E p \in thr[th].own \cup {NULL} \cup ThreadForeign, n \in ThreadResizes :
               StartRealloc(th, p, n)
    \/ \E th \in FullApi, op \in ThreadSweeps : StartSweep(th, op)
    \/ \E th \in Threads : Acquire(th)
    \/ \E th \in Threads : Try(th)
    \/ \E th \in Threads : CallPool(th)
    \/ \E th \in Threads : Release(th)
    \/ \E th \in Threads : Copy(th)

SpecThread == InitThread /\ [][NextThread]_vars

(* A step of thread th, outside the pool core, that waits for nobody. *)
ThreadStep(th) == Try(th) \/ Release(th) \/ Copy(th)

(* Every thread inside a call keeps running, and the locks are fair: a    *)
(* thread blocked in TLSF_LOCK_ACQUIRE obtains a lock that is free again  *)
(* and again.  The pool core call under the lock is sequential code that  *)
(* ends: CallPool(th) is enabled exactly when the thread is at "call" and *)
(* always leaves it, so "infinitely often not at call" is its weak        *)
(* fairness.  Nothing obliges a thread to start a call.                   *)
FairThread ==
    \A th \in Threads :
        /\ WF_vars(ThreadStep(th))
        /\ SF_vars(Acquire(th))
        /\ []<>(thr[th].pc # "call")

SpecThreadFair == InitThread /\ [][NextThread]_vars /\ FairThread

(* ------------------------------------------------------------------ *)
(* Heap walkers (src/src/tlsf.c, tlsf_check and tlsf_get_stats)        *)
(* ------------------------------------------------------------------ *)
ValidWord(w, a) == a \div SIZEOF_SIZE_T \in DOMAIN w.mem

(* The physical block chain from b: the real blocks in address order and *)
(* the end-sentinel, if the walk reaches a zero-size block inside memory. *)
RECURSIVE WalkChain(_, _, _)
WalkChain(w, b, fuel) ==
    IF fuel = 0 \/ ~ValidWord(w, b + OFF_HEADER)
    THEN [blocks |-> <<>>, ok |-> FALSE, sentinel |-> NULL]
    ELSE IF block_size(w, b) = 0
    THEN [blocks |-> <<>>, ok |-> TRUE, sentinel |-> b]
    ELSE LET r == WalkChain(w, block_next(w, b), fuel - 1)
         IN  [blocks |-> <<b>> \o r.blocks, ok |-> r.ok, sentinel |-> r.sentinel]

ArenaStart(w) == IF w.t.arena # NULL THEN w.t.arena ELSE HeapBase

Fuel(w) == MemBytes(w.mem) \div SIZEOF_SIZE_T + 2

ChainOf(w) == WalkChain(w, ArenaStart(w) - BLOCK_OVERHEAD, Fuel(w))

(* The free list headed by b, followed through next_free to the sentinel. *)
RECURSIVE WalkList(_, _, _)
WalkList(w, b, fuel) ==
    IF b = BLOCK_NULL THEN [blocks |-> <<>>, ok |-> TRUE]
    ELSE IF fuel = 0 \/ b <= 0 \/ ~ValidWord(w, b + OFF_HEADER)
            \/ ~ValidWord(w, b + OFF_PREV_FREE)
    THEN [blocks |-> <<>>, ok |-> FALSE]
    ELSE LET r == WalkList(w, RdNextFree(w, b), fuel - 1)
         IN  [blocks |-> <<b>> \o r.blocks, ok |-> r.ok]

ListOf(w, i, j) == WalkList(w, w.t.block[i][j], Fuel(w))

Range(q) == {q[k] : k \in DOMAIN q}

tlsf_get_stats(w) ==
    LET c == ChainOf(w).blocks
        sizes(keep(_)) == [k \in DOMAIN c |-> IF keep(c[k]) THEN block_size(w, c[k]) ELSE 0]
        IsFree(b) == block_is_free(w, b)
        IsUsed(b) == ~block_is_free(w, b)
    IN  IF w.t.size = 0
        THEN [total_free |-> 0, total_used |-> 0, block_count |-> 0, free_count |-> 0,
              overhead |-> 0]
        ELSE [total_free |-> SumSeq(sizes(IsFree)),
              total_used |-> SumSeq(sizes(IsUsed)),
              block_count |-> Len(c),
              free_count |-> Cardinality({k \in DOMAIN c : IsFree(c[k])}),
              overhead |-> Len(c) * BLOCK_OVERHEAD + BLOCK_OVERHEAD,
              largest_free |-> Max({0} \cup {block_size(w, c[k]) : k \in {n \in DOMAIN c : IsFree(c[n])}})]

(* The walkers on the current state; an empty pool (size = 0) has no blocks. *)
Chain ==
    IF tlsf.size = 0 THEN [blocks |-> <<>>, ok |-> TRUE, sentinel |-> NULL]
    ELSE ChainOf(World)
Blocks == Chain.blocks
FreeInChain == {b \in Range(Blocks) : block_is_free(World, b)}
Bins == (0 .. FL_COUNT - 1) \X (0 .. SL_COUNT - 1)
FreeInLists == UNION {Range(ListOf(World, ij[1], ij[2]).blocks) : ij \in Bins}
BSize(b) == block_size(World, b)
PayloadEnd(b) == block_payload(b) + BSize(b)

(* ------------------------------------------------------------------ *)
(* Properties of the block-level heap                                  *)
(* ------------------------------------------------------------------ *)
Disjoint(a1, e1, a2, e2) == e1 <= a2 \/ e2 <= a1

LiveEnd(p) == p + BSize(block_from_payload(p))

(* C1: the payload ranges [p, p + block_size) of the live allocations are *)
(* pairwise disjoint, and no live payload overlaps a free block (its      *)
(* header and payload), whether the free block is found through the bins  *)
(* or through the physical chain.                                         *)
C1_LiveDisjoint ==
    /\ \A p \in live : \A q \in live \ {p} : Disjoint(p, LiveEnd(p), q, LiveEnd(q))
    /\ \A p \in live : \A f \in FreeInLists \cup FreeInChain :
           Disjoint(p, LiveEnd(p), f + OFF_HEADER, PayloadEnd(f))

C1_Witness ==
    /\ Cardinality(live) >= 2
    /\ FreeInLists # {}
    /\ last.op \in {"malloc", "aalloc", "realloc"}
    /\ last.ret # NULL

(* C2: no two physically adjacent blocks of the chain are both free. *)
C2_NoAdjacentFree ==
    \A k \in 1 .. Len(Blocks) - 1 :
        ~(block_is_free(World, Blocks[k]) /\ block_is_free(World, Blocks[k + 1]))

C2_Witness ==
    /\ last.op = "free"
    /\ last.ptr # NULL
    /\ Len(Blocks) >= 2
    /\ \E k \in 1 .. Len(Blocks) : block_is_free(World, Blocks[k])
    /\ \E k \in 1 .. Len(Blocks) : ~block_is_free(World, Blocks[k])

(* C3: in an initialised pool (size # 0), bit i of fl is set iff sl[i] is *)
(* non-zero, and bit j of sl[i] is set iff block[i][j] is not the         *)
(* free-list sentinel.                                                    *)
C3_BitmapsMatchBins ==
    tlsf.size # 0 =>
        \A i \in 0 .. FL_COUNT - 1 :
            /\ (i \in tlsf.fl) <=> (tlsf.sl[i] # {})
            /\ \A j \in 0 .. SL_COUNT - 1 :
                   (j \in tlsf.sl[i]) <=> (tlsf.block[i][j] # BLOCK_NULL)

C3_Witness ==
    /\ tlsf.size # 0
    /\ Cardinality(tlsf.fl) >= 1
    /\ \E i \in tlsf.fl : Cardinality(tlsf.sl[i]) >= 2
    /\ last.op = "free"

(* The doubly-linked shape of one bin's list: it ends at the sentinel,  *)
(* holds no block twice, and prev_free of each member is its            *)
(* predecessor in the list (the sentinel for the head).                 *)
ListLinked(i, j) ==
    LET l == ListOf(World, i, j)
        q == l.blocks
    IN  /\ l.ok
        /\ \A k1 \in DOMAIN q : \A k2 \in DOMAIN q : q[k1] = q[k2] => k1 = k2
        /\ \A k \in DOMAIN q :
               RdPrevFree(World, q[k]) = (IF k = 1 THEN BLOCK_NULL ELSE q[k - 1])

ListMapped(i, j) ==
    \A b \in Range(ListOf(World, i, j).blocks) :
        mapping(BSize(b)) = [fl |-> i, sl |-> j]

(* C4: in an initialised pool the blocks reachable through the bins are  *)
(* exactly the FREE blocks of the physical chain, each once; the size of *)
(* each member maps through mapping() to the bin that holds it; every    *)
(* list is acyclic, doubly linked and ends at the sentinel.              *)
C4_FreeListsMatchChain ==
    tlsf.size # 0 =>
        /\ FreeInLists = FreeInChain
        /\ \A ij \in Bins : ListLinked(ij[1], ij[2]) /\ ListMapped(ij[1], ij[2])

(* C5: the PREV_FREE flag of every block that has a physical predecessor, *)
(* the end-sentinel included, equals the FREE flag of the predecessor,    *)
(* and when the predecessor is free the prev pointer points to it.        *)
ChainWithSentinel == IF Chain.ok THEN Blocks \o <<Chain.sentinel>> ELSE Blocks

C5_PrevFreeMatches ==
    tlsf.size # 0 =>
        \A k \in 2 .. Len(ChainWithSentinel) :
            LET b == ChainWithSentinel[k]
                pb == ChainWithSentinel[k - 1]
            IN  /\ block_is_prev_free(World, b) <=> block_is_free(World, pb)
                /\ block_is_free(World, pb) => RdPrev(World, b) = pb

C5_Witness ==
    /\ tlsf.size # 0
    /\ Len(Blocks) >= 3
    /\ \E k \in 1 .. Len(Blocks) - 1 : block_is_free(World, Blocks[k])
    /\ last.op \in {"free", "realloc"}

(* C6: every real block has a size that is a multiple of ALIGN_SIZE and *)
(* at least BLOCK_SIZE_MIN, tlsf_append_pool with any region size it    *)
(* accepts included.                                                    *)
C6_BlockSizesAlignedAndMin ==
    \A b \in Range(Blocks) : BSize(b) % ALIGN_SIZE = 0 /\ BSize(b) >= BLOCK_SIZE_MIN

(* C7: every block size is at most BLOCK_SIZE_MAX, also after coalescing, *)
(* after a growth merge and after an append onto a free last block.       *)
C7_BlockSizesAtMostMax ==
    \A b \in Range(Blocks) : BSize(b) <= BLOCK_SIZE_MAX

Stats == tlsf_get_stats(World)

(* C8: in a non-empty pool the chain walk from the pool base ends at a  *)
(* zero-size, non-free end-sentinel, the sum of size + BLOCK_OVERHEAD   *)
(* over the real blocks plus one BLOCK_OVERHEAD equals t->size, and the *)
(* statistics satisfy total_free + total_used + overhead = t->size.     *)
C8_ChainCoversPool ==
    tlsf.size # 0 =>
        /\ Chain.ok
        /\ BSize(Chain.sentinel) = 0
        /\ ~block_is_free(World, Chain.sentinel)
        /\ SumSeq([k \in DOMAIN Blocks |-> BSize(Blocks[k]) + BLOCK_OVERHEAD])
               + BLOCK_OVERHEAD = tlsf.size
        /\ Stats.total_free + Stats.total_used + Stats.overhead = tlsf.size

C8_Witness ==
    /\ tlsf.size # 0
    /\ tlsf.arena = NULL
    /\ last.op = "free"
    /\ last.ptr # NULL
    /\ Stats.total_used > 0

(* C9: a non-NULL pointer returned by tlsf_malloc(n), tlsf_aalloc(A, n) or *)
(* tlsf_realloc(p, n) is the payload of a block that is not free and whose *)
(* size is at least n, a multiple of ALIGN_SIZE, and at least              *)
(* BLOCK_SIZE_MIN.                                                         *)
C9_ReturnedBlockFits ==
    (last.op \in {"malloc", "aalloc", "realloc"} /\ last.ret # NULL) =>
        LET b == block_from_payload(last.ret)
        IN  /\ b \in Range(Blocks)
            /\ ~block_is_free(World, b)
            /\ BSize(b) >= last.n
            /\ BSize(b) >= BLOCK_SIZE_MIN
            /\ BSize(b) % ALIGN_SIZE = 0

C9_Witness ==
    /\ last.op = "realloc"
    /\ last.ptr # NULL
    /\ last.ret \notin {NULL, last.ptr}
    /\ last.n = 100

(* C10: a tlsf_malloc(n) that succeeds with n >= BLOCK_SIZE_SMALL returns *)
(* a block of at most n * (1 + 1/SL_COUNT) bytes plus alignment slack, so *)
(* that the overhead (actual - n) / n stays below 5%.                     *)
C10_LargeRequestOverhead ==
    (last.op = "malloc" /\ last.ret # NULL /\ last.n >= BLOCK_SIZE_SMALL) =>
        LET actual == BSize(block_from_payload(last.ret))
        IN  /\ actual * SL_COUNT <= last.n * (SL_COUNT + 1) + (ALIGN_SIZE - 1) * SL_COUNT
            /\ (actual - last.n) * 100 < 5 * last.n

(* ------------------------------------------------------------------ *)
(* Properties of the public operations                                 *)
(* ------------------------------------------------------------------ *)
(* C11: every non-NULL pointer returned by tlsf_malloc or tlsf_realloc is *)
(* a multiple of ALIGN_SIZE, and every non-NULL pointer returned by       *)
(* tlsf_aalloc(A, n) with A a power of two is a multiple of A, whatever   *)
(* the pool state and whether or not n is a multiple of A.                *)
C11_ReturnedPointerAligned ==
    /\ (last.op \in {"malloc", "realloc"} /\ last.ret # NULL) =>
           last.ret % ALIGN_SIZE = 0
    /\ (last.op = "aalloc" /\ last.ret # NULL /\ IsPowerOfTwo(last.align)) =>
           last.ret % last.align = 0

C11_Witness ==
    /\ last.op = "aalloc"
    /\ last.ret # NULL
    /\ last.align > ALIGN_SIZE
    /\ last.n % last.align # 0
    /\ block_payload(Blocks[1]) % last.align # 0

(* A zero-size request: tlsf_malloc(t, 0), or tlsf_aalloc(t, A, 0) with A a *)
(* power of two.                                                            *)
ZeroSizeCall(c) ==
    /\ c.op \in {"malloc", "aalloc"}
    /\ c.n = 0
    /\ c.op = "aalloc" => IsPowerOfTwo(c.align)

(* The free block size that serves the zero-size request c. *)
ZeroSizeNeed(c) ==
    IF c.op = "malloc" \/ c.align <= ALIGN_SIZE THEN adjust_size(0, ALIGN_SIZE)
    ELSE adjust_size(adjust_size(0, ALIGN_SIZE) + c.align - 1 + SIZEOF_BLOCK, c.align)

(* C12: when a free block large enough is available, tlsf_malloc(t, 0) and *)
(* tlsf_aalloc(t, A, 0) return a non-NULL pointer; the pointer they return *)
(* is none of the pointers already live, is A-aligned for the aligned      *)
(* variant, and is the payload of a minimum-sized block: one of            *)
(* BLOCK_SIZE_MIN bytes plus at most a remainder too small to split off.   *)
C12_ZeroSizeAlloc ==
    [][ZeroSizeCall(last') =>
          /\ (\E f \in FreeInChain : BSize(f) >= ZeroSizeNeed(last')) => last'.ret # NULL
          /\ last'.ret # NULL =>
                /\ last'.ret \notin live
                /\ last'.op = "aalloc" => last'.ret % last'.align = 0
                /\ ~block_can_trim(World, block_from_payload(last.ret), BLOCK_SIZE_MIN)'
       ]_vars

(* An invalid-argument request: a size above TLSF_MAX_SIZE, an alignment *)
(* that is zero or no power of two, or an aligned request whose size,    *)
(* alignment and block header together exceed TLSF_MAX_SIZE.             *)
InvalidCall(c) ==
    \/ c.op \in {"malloc", "realloc"} /\ c.n > TLSF_MAX_SIZE
    \/ /\ c.op = "aalloc"
       /\ \/ c.align = 0
          \/ ~IsPowerOfTwo(c.align)
          \/ c.n > TLSF_MAX_SIZE - c.align - SIZEOF_BLOCK

(* C13: an invalid-argument request returns NULL and leaves the control *)
(* structure, the pool memory, the backend and the live allocations     *)
(* unchanged; sizes whose round-up to ALIGN_SIZE would leave the integer *)
(* range are among the requests.                                        *)
C13_InvalidRequestRejected ==
    [][InvalidCall(last') =>
          /\ last'.ret = NULL
          /\ tlsf' = tlsf
          /\ heap' = heap
          /\ brk' = brk
          /\ live' = live
       ]_vars

C13_Witness ==
    /\ last.op = "realloc"
    /\ last.ptr \in live
    /\ last.n = HugeSize
    /\ last.ret = NULL
    /\ Stats.total_used > 0

(* The usable bytes of a fixed pool: tlsf_pool_init sets t->size to the *)
(* size of its one free block plus two block overheads.                 *)
Usable == tlsf.size - 2 * BLOCK_OVERHEAD

AllocOps == {"malloc", "aalloc", "realloc", "free"}

(* The pool holds exactly one block, free, of Usable bytes. *)
OneFreeBlock ==
    /\ Stats.total_used = 0
    /\ Stats.free_count = 1
    /\ Stats.total_free = Usable
    /\ Stats.largest_free = Usable

(* C14: on a fixed pool, Usable is the byte count tlsf_pool_init returned *)
(* and no tlsf_malloc, tlsf_aalloc, tlsf_realloc or tlsf_free changes it; *)
(* whenever such a call leaves no allocation live, the pool holds exactly *)
(* one free block: total_used = 0, free_count = 1 and                     *)
(* total_free = largest_free = Usable.                                    *)
C14_AllFreedOneBlock ==
    [][(tlsf.arena # NULL)' =>
          /\ (last'.op = "pool_init") => (Usable' = last'.ret)
          /\ (last'.op \in AllocOps) => (Usable' = Usable)
          /\ (last'.op \in AllocOps /\ live' = {}) => OneFreeBlock'
       ]_vars

C14_Witness ==
    /\ tlsf.arena # NULL
    /\ last.op = "free"
    /\ last.ptr # NULL
    /\ live = {}
    /\ \E m \in PoolMems, n \in PoolBytes :
           tlsf_pool_init([t |-> ZeroTlsf, mem |-> heap, brk |-> 0], m, n).ret = Stats.total_free

(* The size of the last block of the chain if that block is free, else 0: *)
(* the bytes a dynamic pool holds free at its end.                        *)
TailFree(w) ==
    IF w.t.size = 0 THEN 0
    ELSE With(ChainOf(w).blocks, LAMBDA c :
             IF c # <<>> /\ block_is_free(w, c[Len(c)]) THEN block_size(w, c[Len(c)]) ELSE 0)

(* tlsf_malloc(n) on the current pool, immediately followed by tlsf_free of *)
(* the pointer it returned: the pool this leaves, and whether tlsf_malloc   *)
(* succeeded.                                                               *)
MallocThenFree(n) ==
    With(tlsf_malloc(World, n), LAMBDA r :
        IF r.ret = NULL THEN [ok |-> FALSE, w |-> r.w]
        ELSE [ok |-> TRUE, w |-> tlsf_free(r.w, r.ret)])

(* C15 as stated: from any reachable pool state, fixed or dynamic, a      *)
(* successful tlsf_malloc(n) immediately followed by tlsf_free of the     *)
(* returned pointer restores the total of free payload bytes exactly.     *)
C15_MallocFreeRestoresFree ==
    \A n \in ReqSizes :
        With(MallocThenFree(n), LAMBDA m :
            m.ok => tlsf_get_stats(m.w).total_free = Stats.total_free)

(* C15, amended: the pair restores the total of free payload bytes        *)
(* exactly on a fixed pool; on a dynamic pool it restores the free bytes  *)
(* outside a free last block and never leaves more free bytes than        *)
(* before, because tlsf_free gives a free last block back to the backend. *)
C15_MallocFreeRestoresFreeButTail ==
    \A n \in ReqSizes :
        With(MallocThenFree(n), LAMBDA m :
            m.ok =>
                With(tlsf_get_stats(m.w).total_free, LAMBDA after :
                    IF tlsf.arena # NULL THEN after = Stats.total_free
                    ELSE /\ after - TailFree(m.w) = Stats.total_free - TailFree(World)
                         /\ after <= Stats.total_free))

C15_Witness ==
    /\ tlsf.arena = NULL
    /\ TailFree(World) >= BLOCK_SIZE_MIN
    /\ live # {}
    /\ last.op = "free"
    /\ last.ptr # NULL
    /\ \E n \in ReqSizes : tlsf_malloc(World, n).ret # NULL

(* The payload size of the block behind the live pointer p. *)
PayloadSize(p) == BSize(block_from_payload(p))

FreshFixed ==
    /\ tlsf.arena # NULL
    /\ last.op \in {"pool_init", "pool_reset"}

(* The step asks a fresh fixed pool for all its bytes but one overhead. *)
FullAlloc ==
    /\ FreshFixed
    /\ last'.op = "malloc"
    /\ last'.n = Usable - BLOCK_OVERHEAD

(* The width of the second-level bin a block size falls in. *)
BinWidth(size) ==
    IF size < BLOCK_SIZE_SMALL THEN ALIGN_SIZE ELSE 2 ^ (log2floor(size) - SL_SHIFT)

(* x rounded up to a multiple of k. *)
RoundUp(x, k) == ((x + k - 1) \div k) * k

(* C17 as stated: on a fixed pool in its initial or freshly reset state, a *)
(* single tlsf_malloc(usable_bytes - BLOCK_OVERHEAD) succeeds, for every   *)
(* pool size.                                                              *)
C17_FreshPoolFullAlloc ==
    [][FullAlloc => last'.ret # NULL]_vars

(* C17, amended: the call succeeds exactly when the request is at most     *)
(* TLSF_MAX_SIZE and, rounded up to the boundary of its second-level bin,  *)
(* is still at most usable_bytes; otherwise it returns NULL although the   *)
(* pool holds one free block of usable_bytes.                              *)
C17_FreshPoolFullAllocRounded ==
    [][FullAlloc =>
          (last'.ret # NULL <=>
              /\ last'.n <= TLSF_MAX_SIZE
              /\ RoundUp(last'.n, BinWidth(last'.n)) <= Usable)
       ]_vars

C17_Witness ==
    /\ tlsf.arena # NULL
    /\ last.op = "malloc"
    /\ last.ret # NULL
    /\ last.n = Usable - BLOCK_OVERHEAD
    /\ last.n >= 4 * BLOCK_SIZE_SMALL
    /\ Stats.total_free = 0
    /\ Len(Blocks) = 1

(* The checks of tlsf_check on the current pool. *)
CheckPasses ==
    /\ C2_NoAdjacentFree
    /\ C3_BitmapsMatchBins
    /\ C4_FreeListsMatchChain
    /\ C5_PrevFreeMatches
    /\ C6_BlockSizesAlignedAndMin
    /\ C7_BlockSizesAtMostMax
    /\ C8_ChainCoversPool

(* The bitmaps hold exactly the bit of one free block of Usable bytes. *)
OneBinBit ==
    With(mapping(Usable), LAMBDA m :
        /\ tlsf.fl = {m.fl}
        /\ tlsf.sl = [i \in 0 .. FL_COUNT - 1 |-> IF i = m.fl THEN {m.sl} ELSE {}])

(* What two pool states must agree on to be equivalent: everything but the *)
(* two link fields of the free-list sentinel block_null, which the list    *)
(* operations write as a side effect and never rely on.                    *)
PoolView(w) ==
    [fl |-> w.t.fl, sl |-> w.t.sl, block |-> w.t.block, arena |-> w.t.arena,
     size |-> w.t.size, mem |-> w.mem, brk |-> w.brk]

(* The pool tlsf_pool_init makes of the memory region the current fixed *)
(* pool occupies, and the byte count it returns.                        *)
InitOfRegion ==
    With(tlsf_pool_init([t |-> ZeroTlsf, mem |-> heap, brk |-> brk], tlsf.arena, tlsf.size),
         LAMBDA r : [w |-> Scribble(r.w), ret |-> r.ret])

(* C18: tlsf_pool_reset on a fixed pool, after any sequence of calls that *)
(* left the pool a region tlsf_pool_init accepts, yields the state right  *)
(* after tlsf_pool_init on that region: the bitmaps hold only the bit of  *)
(* the one free block spanning the pool, total_used = 0, total_free is    *)
(* the usable byte count, no allocation is live and the consistency       *)
(* checks pass.  On a dynamic or uninitialised pool it changes nothing.   *)
C18_ResetRestoresInit ==
    [][(last'.op = "pool_reset") =>
          IF tlsf.arena = NULL
          THEN tlsf' = tlsf /\ heap' = heap /\ brk' = brk /\ live' = live
          ELSE InitOfRegion.ret # 0 =>
                  /\ PoolView(World)' = PoolView(InitOfRegion.w)
                  /\ InitOfRegion.ret = Usable
                  /\ Usable' = Usable
                  /\ live' = {}
                  /\ OneFreeBlock'
                  /\ OneBinBit'
                  /\ CheckPasses'
       ]_vars

C18_Witness ==
    /\ last.op = "pool_reset"
    /\ tlsf.arena # NULL
    /\ OneFreeBlock
    /\ OneBinBit

(* The block behind the payload pointer p is followed by a used block or *)
(* the end-sentinel, or by one free block that is in a bin and is itself *)
(* followed by a used block or the end-sentinel.                         *)
TailCoalesced(p) ==
    With(block_next(World, block_from_payload(p)), LAMBDA nb :
        block_is_free(World, nb) =>
            /\ nb \in FreeInLists
            /\ ~block_is_free(World, block_next(World, nb)))

ForwardFits(p, n) ==
    With(block_from_payload(p), LAMBDA b :
        /\ n > BSize(b)
        /\ block_is_free(World, block_next(World, b))
        /\ n <= BSize(b) + BLOCK_OVERHEAD + BSize(block_next(World, b)))

BackwardFits(p, n) ==
    With(block_from_payload(p), LAMBDA b :
        /\ n > BSize(b)
        /\ ~ForwardFits(p, n)
        /\ block_is_prev_free(World, b)
        /\ n <= BSize(block_prev(World, b)) + BSize(b) + BLOCK_OVERHEAD
                + (IF block_is_free(World, block_next(World, b))
                   THEN BSize(block_next(World, b)) + BLOCK_OVERHEAD ELSE 0))

(* The block physically before the block behind the payload pointer p. *)
PrevOf(p) == block_prev(World, block_from_payload(p))

Tag(off) == 2 ^ 21 + off

(* The world after the caller has filled the whole payload behind the *)
(* live pointer p, each word with the tag of its offset.              *)
Fill(w, p) ==
    [w EXCEPT !.mem = [a \in DOMAIN w.mem |->
        IF a * SIZEOF_SIZE_T >= p
           /\ a * SIZEOF_SIZE_T < p + block_size(w, block_from_payload(p))
        THEN Tag(a * SIZEOF_SIZE_T - p)
        ELSE w.mem[a]]]

(* The offsets of the words that hold at least one of the first n bytes. *)
WordOffsets(n) == {SIZEOF_SIZE_T * k : k \in 0 .. (n - 1) \div SIZEOF_SIZE_T}

(* The first n bytes at ptr in w are the tags the caller stored. *)
HoldsTags(w, ptr, n) == \A off \in WordOffsets(n) : Rd(w, ptr + off) = Tag(off)

(* C22: for every live pointer p and every n > 0, a tlsf_realloc(t, p, n) *)
(* that succeeds, by shrinking in place, by a forward merge, by a         *)
(* backward merge or by relocation, leaves the first                      *)
(* min(old payload size, n) bytes of the payload at the pointer it        *)
(* returns; no header, list link or prev pointer is written there.        *)
C22_ReallocKeepsContents ==
    \A r \in ReallocReqs :
        (r[1] \in live /\ r[2] > 0) =>
            With(tlsf_realloc(Fill(World, r[1]), r[1], r[2]), LAMBDA x :
                x.ret # NULL =>
                    HoldsTags(x.w, x.ret,
                              IF PayloadSize(r[1]) < r[2] THEN PayloadSize(r[1]) ELSE r[2]))

(* A relocation has just happened: the returned block lies apart from *)
(* the old one, which is free now.                                    *)
C22_Witness ==
    /\ last.op = "realloc"
    /\ last.ptr # NULL
    /\ last.ret # NULL
    /\ last.n > BLOCK_SIZE_MIN
    /\ Disjoint(last.ret, last.ret + PayloadSize(last.ret), last.ptr, last.ptr + ALIGN_SIZE)
    /\ FreeInChain # {}

(* C23: for every live pointer p and every n > 0, a tlsf_realloc(t, p, n) *)
(* that returns NULL, because n exceeds TLSF_MAX_SIZE or because the      *)
(* block must move and no block is available, leaves the block behind p   *)
(* allocated with its size and its contents, and leaves the control       *)
(* structure, the pool memory and the backend as they were.               *)
C23_ReallocFailureKeepsBlock ==
    \A r \in ReallocReqs :
        (r[1] \in live /\ r[2] > 0) =>
            With(tlsf_realloc(Fill(World, r[1]), r[1], r[2]), LAMBDA x :
                x.ret = NULL =>
                    /\ x.w = Fill(World, r[1])
                    /\ ~block_is_free(x.w, block_from_payload(r[1]))
                    /\ block_size(x.w, block_from_payload(r[1])) = PayloadSize(r[1])
                    /\ HoldsTags(x.w, r[1], PayloadSize(r[1])))

(* A growing tlsf_realloc has just failed although the pool holds a free *)
(* block, and the caller still holds the pointer next to another one.    *)
C23_Witness ==
    /\ last.op = "realloc"
    /\ last.ptr \in live
    /\ last.ret = NULL
    /\ last.n > PayloadSize(last.ptr)
    /\ FreeInChain # {}
    /\ Cardinality(live) >= 2

(* The call c returned its failure indicator: NULL from tlsf_malloc or   *)
(* tlsf_aalloc, 0 from tlsf_append_pool or tlsf_pool_init.               *)
FailedCall(c) ==
    \/ c.op \in {"malloc", "aalloc"} /\ c.ret = NULL
    \/ c.op \in {"append_pool", "pool_init"} /\ c.ret = 0

(* The control structure without the link fields of the free-list *)
(* sentinel, and the pool memory with the block chain.            *)
CtlView(w) ==
    [fl |-> w.t.fl, sl |-> w.t.sl, block |-> w.t.block, arena |-> w.t.arena,
     size |-> w.t.size, mem |-> w.mem]

(* C24 as stated: whenever tlsf_malloc, tlsf_aalloc, tlsf_append_pool or *)
(* tlsf_pool_init returns its failure indicator, the bitmaps, the bin    *)
(* heads, the size, the arena base and the block chain are exactly as    *)
(* before the call, the first failed growth of a zero-initialised        *)
(* dynamic pool included.                                                *)
C24_FailureLeavesStateUnchanged ==
    [][FailedCall(last') => CtlView(World)' = CtlView(World)]_vars

(* The control structure a failed tlsf_pool_init leaves: zeroed, with *)
(* every bin head at the free-list sentinel.                          *)
ClearedTlsf == [ZeroTlsf EXCEPT !.block = EmptyBins]

(* The bin heads of w2 are those of w1, or w1 is a zero-initialised pool *)
(* and w2 has every bin head at the free-list sentinel.                *)
SameBinsOrCleared(w1, w2) ==
    \/ w2.t.block = w1.t.block
    \/ w1.t.size = 0 /\ w1.t.block = ZeroTlsf.block /\ w2.t.block = EmptyBins

(* C24, amended: a failed tlsf_malloc, tlsf_aalloc or tlsf_append_pool   *)
(* leaves the bitmaps, the size, the arena base and the block chain as   *)
(* they were, and the bin heads too, except that the first growth        *)
(* attempt on a zero-initialised dynamic pool points every bin head at   *)
(* the free-list sentinel before it fails.  A failed tlsf_pool_init with *)
(* mem = NULL changes nothing; with any other rejected region it leaves  *)
(* the control structure zeroed with every bin head at the sentinel,     *)
(* whatever the structure held before, and the memory untouched.         *)
C24_FailureLeavesPoolUsable ==
    [][/\ (FailedCall(last') /\ last'.op # "pool_init") =>
             /\ [CtlView(World)' EXCEPT !.block = 0] = [CtlView(World) EXCEPT !.block = 0]
             /\ SameBinsOrCleared(World, World')
       /\ (FailedCall(last') /\ last'.op = "pool_init") =>
             /\ heap' = heap
             /\ tlsf' = IF last'.ptr = NULL THEN tlsf ELSE ClearedTlsf
       /\ \A m \in PoolMems \cup {NULL} :
             With(tlsf_pool_init(World, m, 2 * BLOCK_OVERHEAD), LAMBDA r :
                 /\ r.ret = 0
                 /\ r.w = [World EXCEPT !.t = IF m = NULL THEN tlsf ELSE ClearedTlsf])
      ]_vars

(* A growth has just failed on a dynamic pool that holds live blocks and *)
(* a free block.                                                         *)
C24_Witness ==
    /\ last.op \in {"malloc", "aalloc"}
    /\ last.ret = NULL
    /\ tlsf.arena = NULL
    /\ tlsf.size # 0
    /\ live # {}
    /\ FreeInChain # {}

(* The region sizes tlsf_pool_init is asked to take: everything around *)
(* the smallest pool and around the largest.                            *)
InitBytes == (0 .. 64) \cup (BLOCK_SIZE_MAX - 8 .. BLOCK_SIZE_MAX + 40)

(* The bytes of the region [mem, mem + bytes) from its first ALIGN_SIZE *)
(* boundary on, rounded down to a multiple of ALIGN_SIZE.              *)
AlignedRegion(mem, bytes) ==
    IF mem + bytes <= align_up(mem, ALIGN_SIZE) THEN 0
    ELSE ((mem + bytes - align_up(mem, ALIGN_SIZE)) \div ALIGN_SIZE) * ALIGN_SIZE

(* tlsf_pool_init on the zero-initialised instance does what C25 says for *)
(* the region [mem, mem + bytes).                                        *)
PoolInitMeets(mem, bytes) ==
    With(tlsf_pool_init(World, mem, bytes), LAMBDA r :
        IF \/ mem = NULL
           \/ AlignedRegion(mem, bytes) < BLOCK_SIZE_MIN + 2 * BLOCK_OVERHEAD
           \/ AlignedRegion(mem, bytes) - 2 * BLOCK_OVERHEAD > BLOCK_SIZE_MAX
        THEN r.ret = 0
        ELSE /\ r.ret = AlignedRegion(mem, bytes) - 2 * BLOCK_OVERHEAD
             /\ r.w.t.arena = align_up(mem, ALIGN_SIZE)
             /\ ChainOf(r.w).blocks = <<r.w.t.arena - BLOCK_OVERHEAD>>
             /\ ChainOf(r.w).ok
             /\ ChainOf(r.w).sentinel = r.w.t.arena + r.ret
             /\ tlsf_get_stats(r.w).free_count = 1
             /\ tlsf_get_stats(r.w).total_free = r.ret
             /\ tlsf_get_stats(r.w).total_used = 0)

(* C25: tlsf_pool_init(t, mem, bytes) returns 0 when mem is null, when   *)
(* the aligned region cannot hold one minimum block and two header words *)
(* or when the free size would exceed BLOCK_SIZE_MAX; otherwise it       *)
(* returns the usable byte count and leaves a fixed pool of exactly one  *)
(* free block of that size followed by the end-sentinel, with            *)
(* free_count = 1, total_free = the returned value and total_used = 0.   *)
C25_PoolInitResult ==
    [][last.op = "none" =>
          /\ \A m \in PoolMems \cup {NULL}, bytes \in InitBytes : PoolInitMeets(m, bytes)
          /\ last'.op = "pool_init" => PoolInitMeets(last'.ptr, last'.n)
          /\ (last'.op = "pool_init" /\ last'.ret # 0) =>
                 (tlsf.arena # NULL /\ OneFreeBlock /\ Usable = last.ret)'
       ]_vars

(* tlsf_pool_init has just made the largest pool it accepts. *)
C25_Witness ==
    /\ last.op = "pool_init"
    /\ last.ret = BLOCK_SIZE_MAX
    /\ tlsf.arena # NULL
    /\ OneFreeBlock

(* The bytes tlsf_append_pool absorbs from the region [mem, mem + size): *)
(* the region from its first ALIGN_SIZE boundary on, rounded down to a   *)
(* multiple of ALIGN_SIZE, less the new sentinel word on a fixed pool.   *)
Absorbed(mem, size) ==
    AlignedRegion(mem, size) - (IF tlsf.arena # NULL THEN BLOCK_OVERHEAD ELSE 0)

(* The reasons for which tlsf_append_pool refuses the region of call c: *)
(* null, too small, appended to an empty pool, not starting at the pool *)
(* end, a pool beyond 1 << FL_MAX, or, on a dynamic pool, a backend     *)
(* that does not grant the new pool size.                               *)
AppendRejected(c) ==
    \/ c.ptr = NULL
    \/ c.n < 2 * BLOCK_OVERHEAD
    \/ Absorbed(c.ptr, c.n) < 2 * BLOCK_OVERHEAD
    \/ tlsf.size = 0
    \/ align_up(c.ptr, ALIGN_SIZE) # PoolEnd
    \/ tlsf.size + Absorbed(c.ptr, c.n) + BLOCK_OVERHEAD > 2 ^ FL_MAX
    \/ /\ tlsf.arena = NULL
       /\ tlsf_resize(World, tlsf.size + Absorbed(c.ptr, c.n) + BLOCK_OVERHEAD).addr = NULL

(* The last real block of the chain of w, NULL if none. *)
LastBlock(w) ==
    With(ChainOf(w).blocks, LAMBDA c : IF c = <<>> THEN NULL ELSE c[Len(c)])

(* C26: tlsf_append_pool returns 0 and changes nothing when the region is *)
(* null, too small, not starting at the current pool end, appended to an  *)
(* empty pool or would make the pool exceed 1 << FL_MAX; otherwise it     *)
(* returns the bytes absorbed, the pool size grows by exactly the         *)
(* returned value plus BLOCK_OVERHEAD, the new space is merged with the   *)
(* last block if that was free, and the consistency checks pass           *)
(* afterwards.                                                            *)
C26_AppendPool ==
    [][last'.op = "append_pool" =>
          IF AppendRejected(last')
          THEN last'.ret = 0 /\ tlsf' = tlsf /\ heap' = heap
          ELSE /\ last'.ret = Absorbed(last'.ptr, last'.n)
               /\ tlsf'.size = tlsf.size + last'.ret + BLOCK_OVERHEAD
               /\ tlsf'.arena = tlsf.arena
               /\ block_is_free(World', LastBlock(World'))
               /\ block_is_free(World, LastBlock(World)) =>
                      /\ LastBlock(World') = LastBlock(World)
                      /\ block_size(World', LastBlock(World'))
                             = BSize(LastBlock(World)) + BLOCK_OVERHEAD + last'.ret
               /\ ~block_is_free(World, LastBlock(World)) =>
                      block_size(World', LastBlock(World')) = last'.ret
               /\ CheckPasses'
       ]_vars

(* The request size of the coalescing scenario: the smallest size served *)
(* through block_find_free, as 1024 is.  The build's largest pool holds  *)
(* 2048 bytes where the scenario's pool holds 1 MiB.                     *)
ScenarioSize == BLOCK_SIZE_SMALL + 1

(* Three consecutive tlsf_malloc(n) on the pool w, then tlsf_free of the *)
(* middle block, of the left one and of the right one: all three calls   *)
(* succeed, the blocks are physically adjacent, freeing the middle one   *)
(* raises free_count by 1, and in the end the pool holds one free block  *)
(* of usable bytes.                                                      *)
ThreeAdjacent(w, n, usable) ==
    With(tlsf_malloc(w, n), LAMBDA a :
    With(tlsf_malloc(a.w, n), LAMBDA b :
    With(tlsf_malloc(b.w, n), LAMBDA c :
        /\ a.ret # NULL
        /\ b.ret # NULL
        /\ c.ret # NULL
        /\ block_next(c.w, block_from_payload(a.ret)) = block_from_payload(b.ret)
        /\ block_next(c.w, block_from_payload(b.ret)) = block_from_payload(c.ret)
        /\ With(tlsf_free(c.w, b.ret), LAMBDA w4 :
               /\ tlsf_get_stats(w4).free_count = tlsf_get_stats(c.w).free_count + 1
               /\ With(tlsf_free(tlsf_free(w4, a.ret), c.ret), LAMBDA w6 :
                      /\ tlsf_get_stats(w6).free_count = 1
                      /\ tlsf_get_stats(w6).largest_free = usable)))))

(* C27: in a freshly initialised fixed pool with room for more than four *)
(* blocks of the request size, three consecutive tlsf_malloc calls all   *)
(* succeed and yield three physically adjacent blocks; freeing the       *)
(* middle one raises free_count by 1, and after the left and the right   *)
(* one are freed too, free_count = 1 and largest_free equals the usable  *)
(* bytes tlsf_pool_init returned.                                        *)
C27_ThreeBlocksCoalesce ==
    (/\ tlsf.arena # NULL
     /\ last.op = "pool_init"
     /\ last.ret >= 4 * (align_up(ScenarioSize, ALIGN_SIZE) + BLOCK_OVERHEAD)) =>
        ThreeAdjacent(World, ScenarioSize, last.ret)

(* ------------------------------------------------------------------ *)
(* Properties of the thread-safe wrapper                               *)
(* ------------------------------------------------------------------ *)
(* A thread is inside the pool of arena i from the moment it has the  *)
(* lock until it gives it back.                                        *)
InPool(th, i) == thr[th].pc \in {"call", "release"} /\ thr[th].idx = i

Arenas == 0 .. ts.count - 1

(* C28: every pool core call on arena i is made by a thread that holds     *)
(* the lock of arena i, at most one thread is inside the pool of an arena  *)
(* at a time, and the pool of an arena changes only in the pool call of    *)
(* the thread that holds its lock, so the calls on one arena happen one    *)
(* after the other.                                                        *)
C28_ArenaCallsUnderLock ==
    /\ [](\A i \in Arenas :
             /\ \A th \in Threads : InPool(th, i) => ts.arenas[i].lock = th
             /\ Cardinality({th \in Threads : InPool(th, i)}) <= 1)
    /\ [][\A i \in Arenas :
             ts.arenas[i].pool' # ts.arenas[i].pool =>
                 \E th \in Threads :
                     /\ ts.arenas[i].lock = th
                     /\ thr[th].pc = "call" /\ thr[th].idx = i
                     /\ thr'[th].pc = "release"]_vars

(* Two threads want the same arena: one is inside its pool and the other *)
(* waits for the lock.                                                   *)
C28_Witness ==
    \E i \in Arenas : \E a, b \in Threads :
        /\ a # b
        /\ InPool(a, i) /\ thr[a].pc = "call"
        /\ thr[b].pc = "acquire" /\ thr[b].idx = i
        /\ thr[a].phase = "free" /\ thr[b].phase = "fast"

(* The step in which thread th leaves the allocation path of          *)
(* tlsf_thread_malloc or tlsf_thread_aalloc, and the result it leaves *)
(* with: the block of its last attempt, if it has just made one.      *)
MallocReturns(th) ==
    /\ thr[th].phase \in MallocPhases
    /\ thr'[th].phase \notin MallocPhases

MallocResult(th) == IF thr[th].pc = "release" THEN thr[th].res ELSE NULL

(* The arenas in which the call of thread th has made an allocation *)
(* attempt under the lock so far.                                   *)
Attempted(th) ==
    {thr[th].hist[k].arena : k \in {j \in DOMAIN thr[th].hist : thr[th].hist[j].kind # "busy"}}

(* C29: when tlsf_thread_malloc or tlsf_thread_aalloc on an initialised     *)
(* instance returns NULL, an allocation attempt has been made under the     *)
(* lock in every one of the count arenas during the call and every attempt  *)
(* returned NULL; an attempt that succeeds under a blocking lock ends the   *)
(* call with the block it got, which the caller then owns.                  *)
C29_NullOnlyWhenAllArenasFailed ==
    [][\A th \in Threads :
          /\ (MallocReturns(th) /\ MallocResult(th) = NULL) =>
                 /\ Attempted(th) = Arenas
                 /\ \A k \in DOMAIN thr[th].hist : ~thr[th].hist[k].ok
          /\ (/\ thr[th].pc = "call" /\ thr[th].phase \in {"fast", "p2"}
              /\ thr'[th].pc = "release"
              /\ PoolCall(thr[th], ArenaWorld(ts.arenas[thr[th].idx])).ret # NULL) =>
                 /\ thr'[th].res # NULL
                 /\ AfterRelease(thr'[th], ts.count).pc \in {"idle", "copy"}
                 /\ thr[th].op \in {"malloc", "aalloc"} =>
                        thr'[th].res \in AfterRelease(thr'[th], ts.count).own]_vars

(* A malloc that every arena could serve when empty is at the end of the  *)
(* second phase with nothing found: both arenas are full.                 *)
C29_Witness ==
    \E th \in Threads :
        /\ ts.count = TLSF_ARENA_COUNT
        /\ thr[th].op = "malloc" /\ thr[th].size < MIN_ARENA
        /\ thr[th].pc = "release" /\ thr[th].phase = "p2" /\ thr[th].res = NULL
        /\ thr[th].i = ts.count - 1
        /\ Attempted(th) = Arenas

(* The attempts tlsf_thread_malloc may make, in order, for a thread whose *)
(* preferred arena is pref: the arena and the way its lock is taken.      *)
Plan(pref, count) ==
    <<[arena |-> pref, lock |-> "block"]>>
    \o [k \in 1 .. count - 1 |-> [arena |-> (pref + k) % count, lock |-> "try"]]
    \o [k \in 1 .. count - 1 |-> [arena |-> (pref + k) % count, lock |-> "block"]]

(* How the lock was taken in a recorded step: a busy try-lock is a step of *)
(* the first phase in which no allocation attempt is made.                 *)
LockOf(h) == IF h.kind = "block" THEN "block" ELSE "try"

AttemptsOf(th) == {k \in DOMAIN thr[th].hist : thr[th].hist[k].kind # "busy"}

(* C30: the steps of a tlsf_thread_malloc call follow one fixed plan: the   *)
(* preferred arena, hash(thread hint) mod count, with a blocking acquire;   *)
(* then every other arena once with a try-lock; then every other arena with *)
(* a blocking acquire.  No step follows a successful attempt, the preferred *)
(* arena is attempted once, a call makes at most 1 + 2 * (count - 1)        *)
(* allocation attempts, and a call that returns NULL has gone through the   *)
(* whole plan.                                                              *)
C30_FixedAttemptOrder ==
    /\ [](\A th \in Threads : thr[th].phase \in MallocPhases =>
             LET h == thr[th].hist
                 plan == Plan(arena_select(ts.count, thr[th].hint), ts.count)
             IN  /\ Len(h) <= Len(plan)
                 /\ \A k \in DOMAIN h :
                        /\ h[k].arena = plan[k].arena
                        /\ LockOf(h[k]) = plan[k].lock
                        /\ k < Len(h) => ~h[k].ok
                 /\ Cardinality(AttemptsOf(th)) <= 1 + 2 * (ts.count - 1)
                 /\ Cardinality({k \in AttemptsOf(th) : h[k].arena = plan[1].arena})
                        = IF h = <<>> THEN 0 ELSE 1)
    /\ [][\A th \in Threads :
             MallocReturns(th) =>
                 IF MallocResult(th) = NULL
                 THEN Len(thr[th].hist) = 1 + 2 * (ts.count - 1)
                 ELSE thr[th].hist[Len(thr[th].hist)].ok]_vars

(* A call found its preferred arena full and the other arena busy in the *)
(* first phase, and got a block from it in the second.                   *)
C30_Witness ==
    \E th \in Threads :
        /\ thr[th].pc = "release" /\ thr[th].phase = "p2"
        /\ Len(thr[th].hist) = 1 + 2 * (ts.count - 1)
        /\ thr[th].hist[2].kind = "busy"
        /\ thr[th].hist[3].ok
        /\ thr[th].res # NULL

(* The memory of arena i is [base, base + capacity). *)
InRegion(i, lo, hi) ==
    ts.arenas[i].base <= lo /\ hi <= ts.arenas[i].base + ts.arenas[i].capacity

(* The block behind payload p of arena i, header included, lies in arena i. *)
WholeBlockIn(i, p) ==
    InRegion(i, p - BLOCK_OVERHEAD,
             p + block_size(ArenaWorld(ts.arenas[i]), block_from_payload(p)))

(* A step in which thread th calls tlsf_free or tlsf_realloc on its pointer. *)
FreesOrReallocs(th) ==
    /\ thr[th].pc = "call" /\ thr[th].phase \in {"free", "refree", "realloc"}
    /\ thr'[th].pc = "release"

Relocating(t) ==
    /\ t.op = "realloc" /\ t.ptr # NULL
    /\ \/ t.phase \in MallocPhases \cup {"copy"}
       \/ t.phase = "realloc" /\ t.pc = "release" /\ t.res = NULL
       \/ t.phase = "refree" /\ t.pc \in {"acquire", "call"}

(* The old block of t is a used block of its arena, of the size read *)
(* under the lock.                                                   *)
OldLive(tsv, t) ==
    With(ArenaWorld(tsv.arenas[t.owner]), LAMBDA w :
        /\ block_from_payload(t.ptr) \in Range(ChainOf(w).blocks)
        /\ ~block_is_free(w, block_from_payload(t.ptr))
        /\ block_size(w, block_from_payload(t.ptr)) = t.old_size)

(* The pointers thread t holds: those it owns, without the one its pool   *)
(* call has just given back or moved, and with the one its pool call has  *)
(* just obtained.                                                         *)
Holds(t) ==
    CASE t.pc = "release" /\ t.phase = "free" -> t.own \ {t.ptr}
      [] t.pc = "release" /\ t.phase = "refree" -> (t.own \ {t.ptr}) \cup {t.res}
      [] t.pc = "release" /\ t.phase = "realloc" /\ t.res # NULL ->
             (t.own \ {t.ptr}) \cup {t.res}
      [] t.pc = "release" /\ t.phase \in MallocPhases /\ t.res # NULL ->
             t.own \cup {t.res}
      [] t.phase \in {"copy", "refree"} -> t.own \cup {t.res}
      [] OTHER -> t.own

HandedOut == UNION {Holds(thr[th]) : th \in Threads}

BlockEnd(p) ==
    p + block_size(ArenaWorld(ts.arenas[arena_find(ts, p)]), block_from_payload(p))

(* What the copy step does to an old block whose payload holds known words. *)
CopyOfFilled(t) ==
    thread_memcpy([ts EXCEPT !.arenas[t.owner].mem =
                       Fill(ArenaWorld(ts.arenas[t.owner]), t.ptr).mem], t)

(* C32: after a failed in-arena realloc the old block stays allocated, and  *)
(* overlaps no pointer handed out, as long as tlsf_thread_realloc holds no  *)
(* lock; if no arena can serve the request the call returns NULL and the    *)
(* caller still owns the unchanged old block; otherwise min(old usable      *)
(* size, new size) bytes are copied and the old block is freed once, after  *)
(* the copy, under the lock of its arena.                                   *)
C32_ReallocAcrossArenas ==
    /\ [](\A th \in Threads : Relocating(thr[th]) =>
             /\ OldLive(ts, thr[th])
             /\ \A q \in HandedOut \ {thr[th].ptr} :
                    Disjoint(q - BLOCK_OVERHEAD, BlockEnd(q),
                             thr[th].ptr - BLOCK_OVERHEAD, thr[th].ptr + thr[th].old_size)
             /\ thr[th].pc = "copy" =>
                    HoldsTags(ArenaWorld(CopyOfFilled(thr[th]).arenas[
                                             arena_find(ts, thr[th].res)]),
                              thr[th].res,
                              Min({thr[th].old_size, thr[th].size})))
    /\ [][\A th \in Threads : Relocating(thr[th]) =>
             /\ (MallocReturns(th) /\ MallocResult(th) = NULL) =>
                    /\ thr'[th].pc = "idle" /\ thr'[th].own = thr[th].own
                    /\ OldLive(ts', thr[th])
             /\ ~OldLive(ts', thr[th]) =>
                    /\ thr[th].pc = "call" /\ thr[th].phase = "refree"
                    /\ thr[th].idx = thr[th].owner
                    /\ ts.arenas[thr[th].owner].lock = th
                    /\ AfterRelease(thr'[th], ts.count).own
                           = (thr[th].own \ {thr[th].ptr}) \cup {thr[th].res}]_vars

(* A realloc has found room in another arena than the one of its block *)
(* and is about to copy.                                               *)
C32_Witness ==
    \E th \in Threads :
        /\ thr[th].pc = "copy"
        /\ arena_find(ts, thr[th].res) # thr[th].owner
        /\ thr[th].old_size < thr[th].size

(* tlsf_check as a predicate on a pool: TRUE iff no CHECK of it fails. *)
tlsf_check(w) ==
    \/ w.t.size = 0
    \/ With(ChainOf(w), LAMBDA c :
        LET q == c.blocks
            lists == [ij \in Bins |-> ListOf(w, ij[1], ij[2])]
            last_free == q # <<>> /\ block_is_free(w, q[Len(q)])
        IN  /\ c.ok
            /\ ArenaStart(w) % ALIGN_SIZE = 0
            /\ \A k \in DOMAIN q :
                   /\ block_size(w, q[k]) >= BLOCK_SIZE_MIN
                   /\ block_size(w, q[k]) <= BLOCK_SIZE_MAX
                   /\ block_size(w, q[k]) % ALIGN_SIZE = 0
                   /\ q[k] % ALIGN_SIZE = 0
                   /\ k > 1 =>
                          /\ block_is_prev_free(w, q[k]) = block_is_free(w, q[k - 1])
                          /\ block_is_free(w, q[k - 1]) => RdPrev(w, q[k]) = q[k - 1]
                          /\ ~(block_is_free(w, q[k]) /\ block_is_free(w, q[k - 1]))
            /\ ~block_is_free(w, c.sentinel)
            /\ block_is_prev_free(w, c.sentinel) = last_free
            /\ last_free => RdPrev(w, c.sentinel) = q[Len(q)]
            /\ SumSeq([k \in DOMAIN q |-> block_size(w, q[k]) + BLOCK_OVERHEAD])
                   + BLOCK_OVERHEAD = w.t.size
            /\ \A i \in 0 .. FL_COUNT - 1 :
                   /\ (i \in w.t.fl) <=> (w.t.sl[i] # {})
                   /\ \A j \in 0 .. SL_COUNT - 1 :
                          (j \in w.t.sl[i]) <=> (w.t.block[i][j] # BLOCK_NULL)
            /\ \A ij \in Bins :
                   /\ lists[ij].ok
                   /\ \A k \in DOMAIN lists[ij].blocks :
                          With(lists[ij].blocks[k], LAMBDA b :
                              /\ block_is_free(w, b)
                              /\ mapping(block_size(w, b)) = [fl |-> ij[1], sl |-> ij[2]]
                              /\ block_size(w, b) >= BLOCK_SIZE_MIN
                              /\ ~block_is_prev_free(w, b)
                              /\ ~block_is_free(w, block_next(w, b))
                              /\ block_is_prev_free(w, block_next(w, b))
                              /\ RdPrevFree(w, b) = (IF k = 1 THEN BLOCK_NULL
                                                     ELSE lists[ij].blocks[k - 1])
                              /\ \A k2 \in DOMAIN lists[ij].blocks :
                                     lists[ij].blocks[k2] = b => k2 = k)
            /\ Cardinality({k \in DOMAIN q : block_is_free(w, q[k])})
                   = Cardinality(UNION {Range(lists[ij].blocks) : ij \in Bins}))

(* total_used of tlsf_thread_stats: the sum over the arenas. *)
tlsf_thread_stats(tsv) ==
    SumSeq([k \in 1 .. tsv.count |-> tlsf_get_stats(ArenaWorld(tsv.arenas[k - 1])).total_used])

AllIdle == \A th \in Threads : thr[th].pc = "idle"

(* The payload bytes of the blocks behind the pointers S. *)
RECURSIVE OwnedBytes(_)
OwnedBytes(S) ==
    IF S = {} THEN 0
    ELSE (BlockEnd(Min(S)) - Min(S)) + OwnedBytes(S \ {Min(S)})

(* C33: in every interleaving the blocks the threads hold are pairwise     *)
(* disjoint and no block is held twice; whenever no thread is inside a     *)
(* call, every arena passes tlsf_check and the aggregate total_used is the *)
(* size of the blocks still owned, hence 0 once everything has been freed. *)
C33_ConcurrentUseConsistent ==
    /\ \A p \in HandedOut : \A q \in HandedOut \ {p} :
           Disjoint(p - BLOCK_OVERHEAD, BlockEnd(p), q - BLOCK_OVERHEAD, BlockEnd(q))
    /\ \A a \in Threads : \A b \in Threads \ {a} : Holds(thr[a]) \cap Holds(thr[b]) = {}
    /\ AllIdle =>
           /\ \A i \in Arenas : tlsf_check(ArenaWorld(ts.arenas[i]))
           /\ tlsf_thread_stats(ts) = OwnedBytes(HandedOut)

(* All three arenas' worth of blocks are out: both threads own blocks, two *)
(* of them neighbours in one arena, and nobody is inside a call.         *)
C33_Witness ==
    /\ AllIdle
    /\ Cardinality(HandedOut) = NumThreads * MaxOwn + 1
    /\ \E p \in HandedOut : \E q \in HandedOut : BlockEnd(p) + BLOCK_OVERHEAD = q
    /\ \A th \in Threads : thr[th].own # {}

(* Sizes of the memory given to tlsf_thread_init: too small for a pool,  *)
(* around the 256-byte share at which the count is halved, not a         *)
(* multiple of the cache line, and with a last arena too large for the   *)
(* pool core.                                                            *)
ThreadInitBytes ==
    {0, 8, 16, 24, 40, 64, 255, 256, 304, 511, 512, 520, 575, 576, 1000}
    \cup (2 * BLOCK_SIZE_MAX + 56 .. 2 * BLOCK_SIZE_MAX + 64)

(* The counts tlsf_thread_init can try: TLSF_ARENA_COUNT halved again and *)
(* again.                                                                *)
RECURSIVE Halvings(_)
Halvings(count) == IF count <= 1 THEN {1} ELSE {count} \cup Halvings(count \div 2)

InitCount(bytes) ==
    Max({c \in Halvings(TLSF_ARENA_COUNT) : c = 1 \/ bytes \div c >= MIN_ARENA})

(* The share of every arena but the last. *)
InitShare(bytes) ==
    Max({x \in 0 .. bytes \div InitCount(bytes) : x % TLSF_CACHELINE_SIZE = 0})

(* The region arena i gets when the arenas tile [mem, mem + bytes). *)
InitRegion(mem, bytes, i) ==
    [base |-> mem + i * InitShare(bytes),
     capacity |-> IF i = InitCount(bytes) - 1 THEN bytes - i * InitShare(bytes)
                  ELSE InitShare(bytes)]

(* What tlsf_pool_init returns for the region of arena i. *)
InitUsable(mem, bytes, i) ==
    tlsf_pool_init([t |-> ZeroTlsf,
                    mem |-> [a \in (InitRegion(mem, bytes, i).base \div SIZEOF_SIZE_T) ..
                                   ((InitRegion(mem, bytes, i).base
                                     + InitRegion(mem, bytes, i).capacity)
                                    \div SIZEOF_SIZE_T - 1) |-> Dead],
                    brk |-> 0],
                   InitRegion(mem, bytes, i).base,
                   InitRegion(mem, bytes, i).capacity).ret

ThreadInitMeets(mem, bytes) ==
    With(tlsf_thread_init(mem, bytes), LAMBDA r :
        IF bytes = 0 \/ \E i \in 0 .. InitCount(bytes) - 1 : InitUsable(mem, bytes, i) = 0
        THEN /\ r.ret = 0
             /\ r.ts.count = 0
        ELSE /\ r.ts.count = InitCount(bytes)
             /\ \A i \in 0 .. r.ts.count - 1 :
                    /\ r.ts.arenas[i].base = InitRegion(mem, bytes, i).base
                    /\ r.ts.arenas[i].capacity = InitRegion(mem, bytes, i).capacity
                    /\ r.ts.arenas[i].lock = UNLOCKED
                    /\ r.ts.arenas[i].pool.size - 2 * BLOCK_OVERHEAD
                           = InitUsable(mem, bytes, i)
             /\ r.ts.arenas[0].base = mem
             /\ r.ts.arenas[r.ts.count - 1].base + r.ts.arenas[r.ts.count - 1].capacity
                    = mem + bytes
             /\ r.ret = SumSeq([k \in 1 .. r.ts.count |-> InitUsable(mem, bytes, k - 1)])
             /\ r.ret > 0)

(* C34: tlsf_thread_init halves the arena count from TLSF_ARENA_COUNT until *)
(* bytes / count >= 256 or count = 1, gives every arena but the last the    *)
(* largest cache-line multiple within bytes / count and the last arena the  *)
(* rest, so that the arenas tile [mem, mem + bytes), and returns the sum of *)
(* the arenas' usable bytes; if the pool init of an arena fails it returns  *)
(* 0 and leaves count = 0, and tlsf_thread_malloc then returns NULL.  The   *)
(* function is applied to every size of ThreadInitBytes in the states in    *)
(* which nothing is allocated, the state after tlsf_thread_init among them. *)
C34_ThreadInit ==
    /\ (AllIdle /\ HandedOut = {}) =>
           \A bytes \in ThreadInitBytes \cup ThreadBytes : ThreadInitMeets(HeapBase, bytes)
    /\ \E bytes \in ThreadBytes :
           /\ ts.count \in {0, InitCount(bytes)}
           /\ ts.count = 0 => InitUsable(HeapBase, bytes, 0) = 0
           /\ \A i \in Arenas :
                  /\ ts.arenas[i].base = InitRegion(HeapBase, bytes, i).base
                  /\ ts.arenas[i].capacity = InitRegion(HeapBase, bytes, i).capacity
    /\ \A th \in Threads :
           (ts.count = 0 /\ thr[th].pc = "idle") =>
               \A n \in ThreadSizes :
                   tlsf_thread_malloc([thr[th] EXCEPT !.op = "malloc", !.size = n], ts.count)
                       = Idle(thr[th], thr[th].own)
    /\ ts.count = 0 => \A th \in Threads : thr[th].own = {}

(* The memory was split unevenly and a thread holds a block of the last, *)
(* larger arena.                                                         *)
C34_Witness ==
    /\ ts.count = TLSF_ARENA_COUNT
    /\ ts.arenas[ts.count - 1].capacity > ts.arenas[0].capacity
    /\ \E p \in HandedOut : arena_find(ts, p) = ts.count - 1

(* The bin tlsf_malloc(w, n) draws from and the block it draws, in the pool *)
(* as it is when the block is taken (after a growth, if one was needed);    *)
(* block = NULL if it draws none.                                           *)
DrawOf(w, n) ==
    LET size == adjust_size(n, ALIGN_SIZE)
        sl_map == IF size < BLOCK_SIZE_SMALL
                  THEN {j \in w.t.sl[0] : j >= size \div ALIGN_SIZE} ELSE {}
        m == mapping(round_block_size(size))
        none == [fl |-> 0, sl |-> 0, block |-> NULL, w |-> w, path |-> "none"]
    IN  IF size > TLSF_MAX_SIZE THEN none
        ELSE IF sl_map # {}
        THEN [fl |-> 0, sl |-> bitmap_ffs(sl_map),
              block |-> w.t.block[0][bitmap_ffs(sl_map)], w |-> w, path |-> "fast"]
        ELSE With(block_find_suitable(w, m.fl, m.sl), LAMBDA f1 :
                 IF f1.block # NULL
                 THEN [fl |-> f1.fl, sl |-> f1.sl, block |-> f1.block, w |-> w,
                       path |-> "generic"]
                 ELSE With(arena_grow(w, round_block_size(size)), LAMBDA g :
                          IF ~g.ok THEN none
                          ELSE With(block_find_suitable(g.w, m.fl, m.sl), LAMBDA f2 :
                                   [fl |-> f2.fl, sl |-> f2.sl, block |-> f2.block,
                                    w |-> g.w, path |-> "generic"])))

SearchProbes == {0, 24, 40, 100, 248, 256, 257, 520, 1000, 1032, TLSF_MAX_SIZE}

Rounded(n) == round_block_size(adjust_size(n, ALIGN_SIZE))

(* C36: on a fixed pool tlsf_malloc(n), n <= TLSF_MAX_SIZE, returns a block *)
(* if and only if some free block has at least the size of the adjusted     *)
(* request rounded up with round_block_size, and the block it returns was a *)
(* free block of at least that size.                                        *)
C36_SearchFindsFit ==
    (tlsf.arena # NULL /\ tlsf.size # 0) =>
        \A n \in SearchProbes :
            With(tlsf_malloc(World, n), LAMBDA x :
                /\ (x.ret # NULL) <=> (\E b \in FreeInChain : BSize(b) >= Rounded(n))
                /\ x.ret # NULL =>
                       /\ block_from_payload(x.ret) \in FreeInChain
                       /\ BSize(block_from_payload(x.ret)) >= Rounded(n))

(* A fixed pool holds free blocks in two first-level classes, the lower one *)
(* too small for a request that the higher one can serve.                   *)
C36_Witness ==
    /\ tlsf.arena # NULL /\ tlsf.size # 0
    /\ Cardinality(tlsf.fl) >= 2
    /\ \E n \in SearchProbes :
           /\ tlsf_malloc(World, n).ret # NULL
           /\ mapping(Rounded(n)).fl < Max(tlsf.fl)
           /\ mapping(Rounded(n)).fl \in tlsf.fl
           /\ \A b \in FreeInChain :
                  mapping(BSize(b)).fl = mapping(Rounded(n)).fl => BSize(b) < Rounded(n)

(* The last block of the chain is free and holds the payload address p. *)
TailHolds(w, p) ==
    With(LastBlock(w), LAMBDA b :
        /\ b # NULL
        /\ block_is_free(w, b)
        /\ block_payload(b) <= p
        /\ p < block_payload(b) + block_size(w, b))

(* C37: on a pool created by tlsf_pool_init, tlsf_malloc, tlsf_aalloc,      *)
(* tlsf_realloc and tlsf_free leave the pool size and the arena base as     *)
(* they were and make no resize request; a request the pool cannot serve    *)
(* fails, and a freed block that borders the end-sentinel is linked into    *)
(* the bin of its size.                                                     *)
C37_FixedPoolNeverResized ==
    [][(tlsf.arena # NULL /\ last'.op \in {"malloc", "aalloc", "realloc", "free"}) =>
          /\ tlsf'.size = tlsf.size
          /\ tlsf'.arena = tlsf.arena
          /\ brk' = brk
          /\ (last'.op = "free" /\ last'.ptr # NULL /\ TailHolds(World', last'.ptr)) =>
                 With(LastBlock(World'), LAMBDA b :
                     With(mapping(block_size(World', b)), LAMBDA m :
                         /\ b \in Range(ListOf(World', m.fl, m.sl).blocks)
                         /\ m.fl \in tlsf'.fl
                         /\ m.sl \in tlsf'.sl[m.fl]))]_vars

(* A block at the end of a fixed pool has just been freed while another *)
(* allocation is still live.                                            *)
C37_Witness ==
    /\ tlsf.arena # NULL
    /\ last.op = "free" /\ last.ptr # NULL
    /\ TailHolds(World, last.ptr)
    /\ live # {}
    /\ LastBlock(World) \in FreeInLists

(* The call that has just returned released an allocation: tlsf_free of a *)
(* live pointer, or tlsf_realloc of a live pointer to size 0.             *)
Releases(c) ==
    /\ c.ptr # NULL
    /\ \/ c.op = "free"
       \/ c.op = "realloc" /\ c.n = 0

(* C38: in a dynamic pool, whatever tlsf_malloc, tlsf_aalloc, tlsf_realloc *)
(* and tlsf_append_pool calls came before and in whatever order the        *)
(* allocations are freed, the call that frees the last live allocation     *)
(* leaves the pool empty: size 0, no bit set in either bitmap level, and   *)
(* the resize backend last asked for 0 bytes.                              *)
C38_DynamicPoolEmptiesOut ==
    [][(tlsf.arena = NULL /\ Releases(last') /\ live # {} /\ live' = {}) =>
          /\ tlsf'.size = 0
          /\ tlsf'.fl = {}
          /\ \A i \in DOMAIN tlsf'.sl : tlsf'.sl[i] = {}
          /\ brk' = 0]_vars

(* The last live allocation of a dynamic pool has been freed, and it was *)
(* not the first block of the pool: the blocks below it were free and    *)
(* merged with it before the pool was given back.                        *)
C38_Witness ==
    /\ tlsf.arena = NULL
    /\ last.op = "free" /\ last.ptr > HeapBase + BLOCK_OVERHEAD
    /\ live = {}
    /\ tlsf.size = 0 /\ tlsf.fl = {} /\ brk = 0

(* The thread that holds the lock of arena a, UNLOCKED if none does. *)
Holder(a) == ts.arenas[a].lock

(* The arena locks thread th holds. *)
Held(th) == {a \in Arenas : Holder(a) = th}

(* Thread th can take its next step without waiting for anybody. *)
Runnable(th) ==
    \/ thr[th].pc \in {"try", "call", "release", "copy"}
    \/ thr[th].pc = "acquire" /\ Holder(thr[th].idx) = UNLOCKED

(* C39: a thread holds at most one arena lock at any time; it holds one    *)
(* only between a successful acquire or try-lock and the release that      *)
(* follows the pool call, so none when the API call has returned, whether  *)
(* the call succeeded or failed; a thread that waits for a lock waits for  *)
(* a thread that can run, so the threads never deadlock on arena locks.    *)
C39_OneLockNoDeadlock ==
    /\ \A th \in Threads :
           /\ Cardinality(Held(th)) <= 1
           /\ thr[th].pc \in {"call", "release"} => Held(th) = {thr[th].idx}
           /\ thr[th].pc \notin {"call", "release"} => Held(th) = {}
           /\ (thr[th].pc = "acquire" /\ ~Runnable(th)) =>
                  /\ Holder(thr[th].idx) \in Threads \ {th}
                  /\ Runnable(Holder(thr[th].idx))
    /\ (\E th \in Threads : thr[th].pc # "idle") => \E th \in Threads : Runnable(th)
    /\ \A a \in Arenas : Holder(a) \in Threads \cup {UNLOCKED}

(* One thread waits in a blocking acquire for the lock another thread *)
(* holds, after a failed attempt on another arena.                    *)
C39_Witness ==
    \E th \in Threads, o \in Threads :
        /\ thr[th].pc = "acquire"
        /\ Holder(thr[th].idx) = o /\ o # th
        /\ thr[th].hist # <<>>
        /\ ~thr[th].hist[Len(thr[th].hist)].ok
        /\ Held(th) = {}

(* C40: with fair locks and threads that keep running, every call to      *)
(* tlsf_thread_malloc, tlsf_thread_aalloc, tlsf_thread_free and           *)
(* tlsf_thread_realloc eventually returns, whatever the other thread does *)
(* and whether or not the arenas have memory left.                        *)
C40_CallsReturn ==
    \A th \in Threads :
        (thr[th].op \in {"malloc", "aalloc", "free", "realloc"}) ~> (thr[th].pc = "idle")

(* A thread is about to return NULL from the last blocking attempt of     *)
(* phase 2, every arena being exhausted, while the other thread waits for *)
(* the lock it still holds.                                               *)
C40_Witness ==
    \E th \in Threads, o \in Threads :
        /\ thr[th].pc = "release" /\ thr[th].phase = "p2"
        /\ thr[th].res = NULL /\ thr[th].i + 1 >= ts.count
        /\ o # th
        /\ thr[o].pc = "acquire" /\ thr[o].idx = thr[th].idx
        /\ thr[o].op \in {"free", "realloc"}

====
